---- MODULE Spec2Model ----
(***************************************************************************)
(* A model of the ukulele-reviews scraper (scraper.js), its change          *)
(* detector (change-detector.js) and the helpers they rely on.              *)
(*                                                                          *)
(* JavaScript strings are modelled as sequences of one-character strings,   *)
(* so that substring tests, case conversion and splitting are computed as   *)
(* the code computes them.                                                  *)
(***************************************************************************)
EXTENDS Integers, Sequences, FiniteSets, TLC

VARIABLES bTitle, bList, bResult,
          dPrev, dCurr, dReport, dDetector,
          xPage, xOut,
          fsMeta, fsReviews, run,
          cache, cacheFile, cdCall, cdSeen, cdPending,
          nText, nOut,
          ldResponse, ldOut,
          fReviews, fOrder, fFilters, fOut,
          pMkdir, pDir, pPc, pTotal, pEvents

vars == <<bTitle, bList, bResult, dPrev, dCurr, dReport, dDetector, xPage, xOut,
          fsMeta, fsReviews, run, cache, cacheFile, cdCall, cdSeen, cdPending,
          nText, nOut, ldResponse, ldOut, fReviews, fOrder, fFilters, fOut,
          pMkdir, pDir, pPc, pTotal, pEvents>>

brandVars == <<bTitle, bList, bResult>>
diffVars == <<dPrev, dCurr, dReport, dDetector>>
extractVars == <<xPage, xOut>>
scrapeVars == <<fsMeta, fsReviews, run>>
cacheVars == <<cache, cacheFile, cdCall, cdSeen, cdPending>>
normVars == <<nText, nOut>>
loadVars == <<ldResponse, ldOut>>
filterVars == <<fReviews, fOrder, fFilters, fOut>>
pipelineVars == <<pMkdir, pDir, pPc, pTotal, pEvents>>

(***************************************************************************)
(* Bounds of the model.                                                     *)
(***************************************************************************)
MaxTitleLen == 4
MaxCatalog == 2
MaxDiffLen == 2
MaxLines == 5
MaxRunLines == 2
MaxTotalRuns == 1
MaxFragments == 3
MaxAnchorLines == 3
MaxFilterLen == 2
MaxFound == 2

(***************************************************************************)
(* Strings.                                                                 *)
(***************************************************************************)
Lower ==
  <<"a","b","c","d","e","f","g","h","i","j","k","l","m",
    "n","o","p","q","r","s","t","u","v","w","x","y","z">>

Upper ==
  <<"A","B","C","D","E","F","G","H","I","J","K","L","M",
    "N","O","P","Q","R","S","T","U","V","W","X","Y","Z">>

ToUpperChar(c) ==
  IF \E i \in 1..Len(Lower) : Lower[i] = c
  THEN Upper[CHOOSE i \in 1..Len(Lower) : Lower[i] = c]
  ELSE c

ToLowerChar(c) ==
  IF \E i \in 1..Len(Upper) : Upper[i] = c
  THEN Lower[CHOOSE i \in 1..Len(Upper) : Upper[i] = c]
  ELSE c

ToUpperCase(s) == [i \in 1..Len(s) |-> ToUpperChar(s[i])]

ToLowerCase(s) == [i \in 1..Len(s) |-> ToLowerChar(s[i])]

\* String.prototype.includes
Includes(s, sub) ==
  \E i \in 0..(Len(s) - Len(sub)) : SubSeq(s, i + 1, i + Len(sub)) = sub

\* String.prototype.startsWith
StartsWith(s, pre) ==
  Len(pre) <= Len(s) /\ SubSeq(s, 1, Len(pre)) = pre

\* the characters matched by \s that occur in the modelled pages
IsWhitespace(c) == c = " "

\* String.prototype.trim
RECURSIVE TrimStart(_)
TrimStart(s) ==
  IF s # <<>> /\ IsWhitespace(s[1]) THEN TrimStart(Tail(s)) ELSE s

RECURSIVE TrimEnd(_)
TrimEnd(s) ==
  IF s # <<>> /\ IsWhitespace(s[Len(s)])
  THEN TrimEnd(SubSeq(s, 1, Len(s) - 1))
  ELSE s

Trim(s) == TrimEnd(TrimStart(s))

\* s.split(/\s+/)[0]: the text before the first run of whitespace
RECURSIVE SplitFirst(_)
SplitFirst(s) ==
  IF s = <<>> \/ IsWhitespace(s[1])
  THEN <<>>
  ELSE <<s[1]>> \o SplitFirst(Tail(s))

UNKNOWN == <<"U","N","K","N","O","W","N">>

(***************************************************************************)
(* findBestMatchingBrand                                                    *)
(***************************************************************************)
\* one step of the stable sort (a, b) => b.length - a.length
RECURSIVE InsertByLength(_, _)
InsertByLength(b, sorted) ==
  IF sorted = <<>> THEN <<b>>
  ELSE IF Len(Head(sorted)) >= Len(b)
       THEN <<Head(sorted)>> \o InsertByLength(b, Tail(sorted))
       ELSE <<b>> \o sorted

RECURSIVE SortByLengthAsc(_)
SortByLengthAsc(list) ==
  IF list = <<>> THEN <<>>
  ELSE LET rest == SortByLengthAsc(Tail(list))
           b == Head(list)
           k == Cardinality({i \in 1..Len(rest) : Len(rest[i]) < Len(b)})
       IN  SubSeq(rest, 1, k) \o <<b>> \o SubSeq(rest, k + 1, Len(rest))

RECURSIVE SortByLengthDesc(_)
SortByLengthDesc(list) ==
  IF list = <<>> THEN <<>>
  ELSE LET n == Len(list)
       IN  InsertByLength(list[n], SortByLengthDesc(SubSeq(list, 1, n - 1)))

RECURSIVE FirstIncluded(_, _)
FirstIncluded(titleUpper, brands) ==
  IF brands = <<>> THEN [found |-> FALSE, brand |-> <<>>]
  ELSE IF Includes(titleUpper, Head(brands))
       THEN [found |-> TRUE, brand |-> Head(brands)]
       ELSE FirstIncluded(titleUpper, Tail(brands))

FirstWordFallback(title) ==
  LET firstWord == SplitFirst(title)
  IN  IF firstWord # <<>> THEN ToUpperCase(firstWord) ELSE UNKNOWN

SortedBrands(brandList) == SortByLengthDesc(brandList)

FindBestMatchingBrand(title, brandList) ==
  LET titleUpper == ToUpperCase(title)
      hit == FirstIncluded(titleUpper, SortedBrands(brandList))
  IN  IF hit.found THEN hit.brand ELSE FirstWordFallback(title)

(***************************************************************************)
(* Review records and the scraper's generateDiffReport                      *)
(***************************************************************************)
Review(size, brand, model, priceRange, url, rating, reviewDate) ==
  [size |-> size, brand |-> brand, model |-> model, priceRange |-> priceRange,
   url |-> url, rating |-> rating, reviewDate |-> reviewDate]

\* items.map((item) => item.url)
MapUrl(items) == [i \in 1..Len(items) |-> items[i].url]

\* the iteration order of new Set(list): first occurrences, in order
RECURSIVE SetOrder(_)
SetOrder(list) ==
  IF list = <<>> THEN <<>>
  ELSE LET init == SubSeq(list, 1, Len(list) - 1)
           last == list[Len(list)]
       IN  IF \E i \in 1..Len(init) : init[i] = last
           THEN SetOrder(init)
           ELSE SetOrder(init) \o <<last>>

Range(seq) == {seq[i] : i \in 1..Len(seq)}

\* previousData is [isNull, items]: null, or the array parsed from the file
NullData == [isNull |-> TRUE, items |-> <<>>]

ArrayData(items) == [isNull |-> FALSE, items |-> items]

\* previousData || []
OrEmpty(previousData) ==
  IF previousData.isNull THEN <<>> ELSE previousData.items

NewReviewsInverted(prevUrls, currentData) ==
  LET Keep(item) == item.url \in Range(prevUrls)
  IN  SelectSeq(currentData, Keep)

NewReviews(prevUrls, currentData) ==
  LET Keep(item) == item.url \notin Range(prevUrls)
  IN  SelectSeq(currentData, Keep)

RemovedUrlsAll(prevUrls, currUrls) == prevUrls

RemovedUrls(prevUrls, currUrls) ==
  LET Keep(url) == url \notin Range(currUrls)
  IN  SelectSeq(prevUrls, Keep)

GenerateDiffReport(previousData, currentData) ==
  LET prevUrls == SetOrder(MapUrl(OrEmpty(previousData)))
      currUrls == SetOrder(MapUrl(currentData))
      totalPrevious == IF previousData.isNull THEN 0 ELSE Len(previousData.items)
  IN  [changes |-> [new |-> NewReviews(prevUrls, currentData),
                    updated |-> <<>>,
                    removed |-> RemovedUrls(prevUrls, currUrls)],
       summary |-> [totalPrevious |-> totalPrevious,
                    totalCurrent |-> Len(currentData),
                    netChange |-> Len(currentData) - totalPrevious]]

(***************************************************************************)
(* The page: the sibling nodes of the main content, in document order.      *)
(* type/name are the parser's node type and tag name; a heading is a        *)
(* <b><span> whose text() is `text` and whose first child is a text node    *)
(* holding `data`; an anchor carries href and its text(); a text node is    *)
(* described by what the rating pattern looks at: the number, the           *)
(* separator that follows it, the parenthesised date and its length.        *)
(***************************************************************************)
Node(type, name, text, data, href, inB, sep, num, date, len) ==
  [type |-> type, name |-> name, text |-> text, data |-> data, href |-> href,
   inB |-> inB, sep |-> sep, num |-> num, date |-> date, len |-> len]

HeadingNode(text, data) ==
  Node("tag", "b", text, data, "", FALSE, "", <<>>, <<>>, 0)

AnchorNode(href, text, inB) ==
  Node("tag", "a", text, <<>>, href, inB, "", <<>>, <<>>, 0)

TextNode(sep, num, date, len) ==
  Node("text", "", <<>>, <<>>, "", FALSE, sep, num, date, len)

BrNode == Node("tag", "br", <<>>, <<>>, "", FALSE, "", <<>>, <<>>, 0)

IsHeading(n) == n.type = "tag" /\ n.name = "b" /\ n.text # <<>>

\* this.priceRanges: the keys in insertion order, and their categories
PriceTitles ==
  << <<"U","k","u","l","e","l","e","s"," ","&pound;","0"," ","-"," ","&pound;","5","0">>,
     <<"U","k","u","l","e","l","e","s"," ","&pound;","5","0","-"," ","&pound;","1","0","0">>,
     <<"U","k","u","l","e","l","e","s"," ","&pound;","1","0","0"," ","-"," ","&pound;","2","0","0">>,
     <<"U","k","u","l","e","l","e","s"," ","&pound;","2","0","0"," ","-"," ","&pound;","5","0","0">>,
     <<"U","k","u","l","e","l","e","s"," ","&pound;","5","0","0"," ","p","l","u","s">> >>

PriceCategories == <<"<50", "50-100", "100-200", "200-500", "500+">>

RECURSIVE RemoveChar(_, _)
RemoveChar(s, c) ==
  IF s = <<>> THEN <<>>
  ELSE IF s[1] = c THEN RemoveChar(Tail(s), c)
       ELSE <<s[1]>> \o RemoveChar(Tail(s), c)

\* mapPriceRange with the rules tried from the lowest range upwards
MapPriceRangeLowestFirst(priceRangeText) ==
  LET cleanText == Trim(ToLowerCase(RemoveChar(priceRangeText, "&pound;")))
  IN  IF Includes(cleanText, <<"0"," ","-">>) \/ StartsWith(cleanText, <<"0","-">>)
      THEN "<50"
      ELSE IF Includes(cleanText, <<"5","0","-">>) \/ Includes(cleanText, <<"5","0"," ","-">>)
      THEN "50-100"
      ELSE IF Includes(cleanText, <<"1","0","0"," ","-">>) \/ Includes(cleanText, <<"1","0","0","-">>)
      THEN "100-200"
      ELSE IF Includes(cleanText, <<"2","0","0"," ","-">>) \/ Includes(cleanText, <<"2","0","0","-">>)
      THEN "200-500"
      ELSE IF Includes(cleanText, <<"5","0","0">>)
              /\ (Includes(cleanText, <<"p","l","u","s">>) \/ Includes(cleanText, <<"+">>))
      THEN "500+"
      ELSE "unknown"

MapPriceRange(priceRangeText) ==
  LET cleanText == Trim(ToLowerCase(RemoveChar(priceRangeText, "&pound;")))
  IN  IF Includes(cleanText, <<"5","0","0">>)
         /\ (Includes(cleanText, <<"p","l","u","s">>) \/ Includes(cleanText, <<"+">>))
      THEN "500+"
      ELSE IF Includes(cleanText, <<"2","0","0"," ","-">>) \/ Includes(cleanText, <<"2","0","0","-">>)
      THEN "200-500"
      ELSE IF Includes(cleanText, <<"1","0","0"," ","-">>) \/ Includes(cleanText, <<"1","0","0","-">>)
      THEN "100-200"
      ELSE IF Includes(cleanText, <<"5","0","-">>) \/ Includes(cleanText, <<"5","0"," ","-">>)
      THEN "50-100"
      ELSE IF Includes(cleanText, <<"0"," ","-">>) \/ StartsWith(cleanText, <<"0","-">>)
      THEN "<50"
      ELSE "unknown"

Indices(n) == [i \in 1..n |-> i]

\* $main('b > span').each(...) for one price title: the matching headings,
\* in document order
HeadingsFor(nodes, priceTitle) ==
  LET Match(i) == IsHeading(nodes[i]) /\ StartsWith(Trim(nodes[i].text), priceTitle)
  IN  SelectSeq(Indices(Len(nodes)), Match)

\* Object.keys(this.priceRanges).forEach(...): the headings of the first
\* k price titles, title by title
RECURSIVE PriceTitleNodesUpTo(_, _)
PriceTitleNodesUpTo(nodes, k) ==
  IF k = 0 THEN <<>>
  ELSE PriceTitleNodesUpTo(nodes, k - 1) \o HeadingsFor(nodes, PriceTitles[k])

PriceTitleNodes(nodes) == PriceTitleNodesUpTo(nodes, Len(PriceTitles))

\* a node's startIndex grows with its position in the document
IsHigherInDom(node1, node2) == node1 < node2

\* priceNode after the forEach: the last heading OF THE LIST that does not
\* start after the anchor, or priceTitles[0]; priceNode.data of undefined
\* is a TypeError
ExtractReviewPrice(node, priceTitles, nodes) ==
  LET NotAfter(p) == ~IsHigherInDom(node, p)
      hits == SelectSeq(priceTitles, NotAfter)
  IN  IF priceTitles = <<>>
      THEN [error |-> "TypeError", priceRange |-> "unknown"]
      ELSE LET priceNode == IF hits # <<>> THEN hits[Len(hits)] ELSE priceTitles[1]
           IN  [error |-> "none", priceRange |-> MapPriceRange(nodes[priceNode].data)]

(***************************************************************************)
(* Field normalisation: size, model, date, rating                           *)
(***************************************************************************)
Digits == <<"0","1","2","3","4","5","6","7","8","9">>

IsDigit(c) == \E i \in 1..Len(Digits) : Digits[i] = c

DigitValue(c) == (CHOOSE i \in 1..Len(Digits) : Digits[i] = c) - 1

IsLetter(c) == (\E i \in 1..Len(Lower) : Lower[i] = c) \/ (\E i \in 1..Len(Upper) : Upper[i] = c)

GetEdgeCaseSize(title) ==
  LET lowerTitle == Trim(ToLowerCase(title))
  IN  IF lowerTitle = <<"e","n","y","a"," ","e","u","c","-","m","s">> THEN <<"c","o","n","c","e","r","t">> ELSE <<>>

\* extractSize without the exception table
ExtractSizeWithoutEdgeCase(title) ==
  LET lowerTitle == ToLowerCase(title)
  IN  IF Includes(lowerTitle, <<"s","o","p","r","a","n","o">>) THEN <<"s","o","p","r","a","n","o">>
      ELSE IF Includes(lowerTitle, <<"s","o","p","r","a","n","i","n","o">>) THEN <<"s","o","p","r","a","n","i","n","o">>
      ELSE IF Includes(lowerTitle, <<"c","o","n","c","e","r","t">>) THEN <<"c","o","n","c","e","r","t">>
      ELSE IF Includes(lowerTitle, <<"t","e","n","o","r">>) THEN <<"t","e","n","o","r">>
      ELSE IF Includes(lowerTitle, <<"b","a","r","i","t","o","n","e">>) \/ Includes(lowerTitle, <<"b","a","r","i"," ">>)
      THEN <<"b","a","r","i","t","o","n","e">>
      ELSE <<"o","t","h","e","r">>

\* extractSize with the 'sopranino' test ahead of the 'soprano' test
ExtractSizeSopraninoFirst(title) ==
  LET lowerTitle == ToLowerCase(title)
  IN  IF GetEdgeCaseSize(title) # <<>> THEN GetEdgeCaseSize(title)
      ELSE IF Includes(lowerTitle, <<"s","o","p","r","a","n","i","n","o">>) THEN <<"s","o","p","r","a","n","i","n","o">>
      ELSE IF Includes(lowerTitle, <<"s","o","p","r","a","n","o">>) THEN <<"s","o","p","r","a","n","o">>
      ELSE IF Includes(lowerTitle, <<"c","o","n","c","e","r","t">>) THEN <<"c","o","n","c","e","r","t">>
      ELSE IF Includes(lowerTitle, <<"t","e","n","o","r">>) THEN <<"t","e","n","o","r">>
      ELSE IF Includes(lowerTitle, <<"b","a","r","i","t","o","n","e">>) \/ Includes(lowerTitle, <<"b","a","r","i"," ">>)
      THEN <<"b","a","r","i","t","o","n","e">>
      ELSE <<"o","t","h","e","r">>

ExtractSize(title) ==
  LET lowerTitle == ToLowerCase(title)
  IN  IF GetEdgeCaseSize(title) # <<>> THEN GetEdgeCaseSize(title)
      ELSE IF Includes(lowerTitle, <<"s","o","p","r","a","n","o">>) THEN <<"s","o","p","r","a","n","o">>
      ELSE IF Includes(lowerTitle, <<"s","o","p","r","a","n","i","n","o">>) THEN <<"s","o","p","r","a","n","i","n","o">>
      ELSE IF Includes(lowerTitle, <<"c","o","n","c","e","r","t">>) THEN <<"c","o","n","c","e","r","t">>
      ELSE IF Includes(lowerTitle, <<"t","e","n","o","r">>) THEN <<"t","e","n","o","r">>
      ELSE IF Includes(lowerTitle, <<"b","a","r","i","t","o","n","e">>) \/ Includes(lowerTitle, <<"b","a","r","i"," ">>)
      THEN <<"b","a","r","i","t","o","n","e">>
      ELSE <<"o","t","h","e","r">>

\* s.replace(/pat/gi, ''): every occurrence, left to right, ignoring case
RECURSIVE RemoveAllIgnoreCase(_, _)
RemoveAllIgnoreCase(s, pat) ==
  IF Len(s) < Len(pat) THEN s
  ELSE IF ToLowerCase(SubSeq(s, 1, Len(pat))) = ToLowerCase(pat)
       THEN RemoveAllIgnoreCase(SubSeq(s, Len(pat) + 1, Len(s)), pat)
       ELSE <<s[1]>> \o RemoveAllIgnoreCase(Tail(s), pat)

\* s.split(/\s+/) of a trimmed, non-empty string
RECURSIVE SplitWords(_)
SplitWords(s) ==
  LET first == SplitFirst(s)
      rest == TrimStart(SubSeq(s, Len(first) + 1, Len(s)))
  IN  IF rest = <<>> THEN <<first>> ELSE <<first>> \o SplitWords(rest)

\* words.join(' ')
RECURSIVE JoinWords(_)
JoinWords(words) ==
  IF words = <<>> THEN <<>>
  ELSE IF Len(words) = 1 THEN words[1]
       ELSE words[1] \o <<" ">> \o JoinWords(Tail(words))

UnknownModel == <<"U","n","k","n","o","w","n"," ","M","o","d","e","l">>

SizeWords == { <<"s","o","p","r","a","n","i","n","o">>, <<"s","o","p","r","a","n","o">>, <<"c","o","n","c","e","r","t">>, <<"t","e","n","o","r">>, <<"b","a","r","i","t","o","n","e">> }

\* cleanTitle.replace(new RegExp(`^${brand}\\s*`, 'i'), ''): the escaping
\* replace in the source only fires on a metacharacter followed by \\],
\* so the brand is used as written; brands here hold no metacharacter
StripBrandPrefix(cleanTitle, brand) ==
  IF Len(brand) <= Len(cleanTitle)
     /\ ToLowerCase(SubSeq(cleanTitle, 1, Len(brand))) = ToLowerCase(brand)
  THEN TrimStart(SubSeq(cleanTitle, Len(brand) + 1, Len(cleanTitle)))
  ELSE cleanTitle

ExtractBrandAndModel(title, brandList) ==
  LET brand == FindBestMatchingBrand(title, brandList)
      cleanTitle ==
        Trim(RemoveAllIgnoreCase(
               RemoveAllIgnoreCase(
                 RemoveAllIgnoreCase(
                   RemoveAllIgnoreCase(title, <<" ","u","k","u","l","e","l","e","s">>),
                   <<" ","u","k","u","l","e","l","e">>),
                 <<" ","u","k","e">>),
               <<" ","r","e","v","i","e","w">>))
      stripped == Trim(StripBrandPrefix(cleanTitle, brand))
      model == IF stripped # <<>> THEN stripped ELSE UnknownModel
      modelWords == SplitWords(model)
      lastWord == ToLowerCase(modelWords[Len(modelWords)])
  IN  [brand |-> brand,
       model |-> IF Len(modelWords) > 1 /\ lastWord \in SizeWords
                 THEN JoinWords(SubSeq(modelWords, 1, Len(modelWords) - 1))
                 ELSE model]

\* months[...] of parseReviewDate: <<>> for a word that is no month
MonthNumber(abbr) ==
  CASE abbr = <<"j","a","n">> -> <<"0","1">> [] abbr = <<"f","e","b">> -> <<"0","2">> [] abbr = <<"m","a","r">> -> <<"0","3">>
    [] abbr = <<"a","p","r">> -> <<"0","4">> [] abbr = <<"m","a","y">> -> <<"0","5">> [] abbr = <<"j","u","n">> -> <<"0","6">>
    [] abbr = <<"j","u","l">> -> <<"0","7">> [] abbr = <<"a","u","g">> -> <<"0","8">> [] abbr = <<"s","e","p">> -> <<"0","9">>
    [] abbr = <<"o","c","t">> -> <<"1","0">> [] abbr = <<"n","o","v">> -> <<"1","1">> [] abbr = <<"d","e","c">> -> <<"1","2">>
    [] OTHER -> <<>>

AllDigits(s) == \A i \in 1..Len(s) : IsDigit(s[i])

AllLetters(s) == \A i \in 1..Len(s) : IsLetter(s[i])

\* /([a-z]{3})\s+(\d{4})/i at offset i with a whitespace run of j
MonthYearAt(s, i, j) ==
  /\ i + 6 + j <= Len(s)
  /\ AllLetters(SubSeq(s, i, i + 2))
  /\ \A k \in (i + 3)..(i + 2 + j) : IsWhitespace(s[k])
  /\ AllDigits(SubSeq(s, i + 3 + j, i + 6 + j))

\* /(\d{4})/ at offset i
YearAt(s, i) == i + 3 <= Len(s) /\ AllDigits(SubSeq(s, i, i + 3))

\* a null date is the empty sequence
NullDate == <<>>

ParseReviewDate(dateStr) ==
  IF dateStr = <<>> THEN NullDate
  ELSE
    LET cleanDate == Trim(RemoveChar(RemoveChar(dateStr, "("), ")"))
        n == Len(cleanDate)
        starts == {i \in 1..n : \E j \in 1..n : MonthYearAt(cleanDate, i, j)}
        years == {i \in 1..n : YearAt(cleanDate, i)}
        FirstOf(set) == CHOOSE i \in set : \A k \in set : i <= k
        m0 == FirstOf(starts)
        j0 == CHOOSE j \in 1..n : MonthYearAt(cleanDate, m0, j)
        month == MonthNumber(ToLowerCase(SubSeq(cleanDate, m0, m0 + 2)))
        y0 == FirstOf(years)
    IN  IF starts # {} /\ month # <<>>
        THEN SubSeq(cleanDate, m0 + 3 + j0, m0 + 6 + j0) \o <<"-">> \o month \o <<"-","0","1">>
        ELSE IF years # {}
             THEN SubSeq(cleanDate, y0, y0 + 3) \o <<"-","0","1","-","0","1">>
             ELSE NullDate

RECURSIVE DigitPrefix(_)
DigitPrefix(s) ==
  IF s # <<>> /\ IsDigit(s[1]) THEN <<s[1]>> \o DigitPrefix(Tail(s)) ELSE <<>>

RECURSIVE DecimalValue(_)
DecimalValue(ds) ==
  IF ds = <<>> THEN 0 ELSE 10 * DecimalValue(SubSeq(ds, 1, Len(ds) - 1)) + DigitValue(ds[Len(ds)])

\* parseFloat of the text matched by [\d.]+, in tenths; NaN is -1
NaN == 0 - 1

ParseFloat(num) ==
  LET whole == DigitPrefix(num)
      rest == SubSeq(num, Len(whole) + 1, Len(num))
      frac == IF rest # <<>> /\ rest[1] = "." THEN DigitPrefix(Tail(rest)) ELSE <<>>
  IN  IF whole = <<>> /\ frac = <<>> THEN NaN
      ELSE 10 * DecimalValue(whole) + (IF frac = <<>> THEN 0 ELSE DigitValue(frac[1]))

(***************************************************************************)
(* Array.prototype.sort() on strings: by UTF-16 code unit                   *)
(***************************************************************************)
CodeOrder ==
  <<" ","(",")","+","-",".","/","0","1","2","3","4","5","6","7","8","9","<",
     "A","B","C","D","E","F","G","H","I","J","K","L","M","N","O","P","Q","R","S","T","U","V","W","X","Y","Z",
     "a","b","c","d","e","f","g","h","i","j","k","l","m","n","o","p","q","r","s","t","u","v","w","x","y","z","&pound;">>

CharCode(c) == CHOOSE i \in 1..Len(CodeOrder) : CodeOrder[i] = c

RECURSIVE StringLess(_, _)
StringLess(a, b) ==
  IF b = <<>> THEN FALSE
  ELSE IF a = <<>> THEN TRUE
  ELSE IF a[1] = b[1] THEN StringLess(Tail(a), Tail(b))
  ELSE CharCode(a[1]) < CharCode(b[1])

RECURSIVE SortStrings(_)
SortStrings(set) ==
  IF set = {} THEN <<>>
  ELSE LET least == CHOOSE a \in set : \A b \in set \ {a} : StringLess(a, b)
       IN  <<least>> \o SortStrings(set \ {least})

\* the tag cloud is the list of the link texts of the widget
ExtractBrandsFromTagCloud(cloud) ==
  LET names == {Trim(cloud[i]) : i \in 1..Len(cloud)}
      brands == {ToUpperCase(name) : name \in names \ {<<>>}}
  IN  SortStrings(brands)

(***************************************************************************)
(* The anchor loop of extractAllReviews                                     *)
(***************************************************************************)
HrefKala == "https://www.gotaukulele.com/2021/03/kala-tenor.html"
HrefOhana == "https://www.gotaukulele.com/2019/07/ohana-uke.html"
HrefIndex == "https://www.gotaukulele.com/p/ukulele-reviews.html"
HrefRelative == "//www.gotaukulele.com/2020/01/flight.html"
HrefElsewhere == "https://example.com/kala.html"

\* href*="gotaukulele.com", href.includes('/p/'), href.startsWith('http')
DomainHrefs == {HrefKala, HrefOhana, HrefIndex, HrefRelative}
IndexHrefs == {HrefIndex}
HttpHrefs == {HrefKala, HrefOhana, HrefIndex, HrefElsewhere}

ReviewUrl(href) ==
  IF href \in HttpHrefs THEN href
  ELSE IF href = HrefRelative
       THEN "https://www.gotaukulele.com//www.gotaukulele.com/2020/01/flight.html"
       ELSE "https://www.gotaukulele.com"

MinLinkText == 5
FollowingLimit == 100

\* nextNode.data.includes('out')
HasOut(n) == n.sep \in {"out of 10", "out 10", "about"}

RECURSIVE TextLength(_)
TextLength(texts) ==
  IF texts = <<>> THEN 0 ELSE texts[1].len + TextLength(Tail(texts))

\* while (nextNode && followingText.length < 100) over the siblings from i
RECURSIVE ScanSiblings(_, _, _)
ScanSiblings(nodes, i, followingText) ==
  IF i > Len(nodes) \/ TextLength(followingText) >= FollowingLimit
  THEN followingText
  ELSE IF nodes[i].type = "text" /\ HasOut(nodes[i])
       THEN ScanSiblings(nodes, i + 1, followingText \o <<nodes[i]>>)
       ELSE IF nodes[i].type = "tag" /\ nodes[i].name = "br" /\ nodes[i].name = "div"
            THEN followingText
            ELSE ScanSiblings(nodes, i + 1, followingText)

\* the same walk from the sibling of the enclosing <b>: the first text node
RECURSIVE ScanAfterBold(_, _)
ScanAfterBold(nodes, i) ==
  IF i > Len(nodes) THEN <<>>
  ELSE IF nodes[i].type = "text" THEN <<nodes[i]>>
       ELSE IF nodes[i].type = "tag" /\ nodes[i].name = "br" /\ nodes[i].name = "div"
            THEN <<>>
            ELSE ScanAfterBold(nodes, i + 1)

\* an anchor inside <b> has no sibling of its own inside it
FollowingText(nodes, pos) ==
  LET direct == IF nodes[pos].inB THEN <<>> ELSE ScanSiblings(nodes, pos + 1, <<>>)
  IN  IF direct = <<>> /\ nodes[pos].inB THEN ScanAfterBold(nodes, pos + 1) ELSE direct

MatchesRatingPattern(t) ==
  t.num # <<>> /\ t.date # <<>> /\ t.sep \in {"out of 10", "/10"}

MatchesRatingPattern2(t) ==
  t.num # <<>> /\ t.date # <<>> /\ t.sep \in {"out 10", "/10"}

\* followingText.trim().match(ratingPattern) || ...match(ratingPattern2)
RatingMatch(followingText) ==
  LET first == SelectSeq(followingText, MatchesRatingPattern)
      second == SelectSeq(followingText, MatchesRatingPattern2)
  IN  IF first # <<>> THEN <<first[1]>>
      ELSE IF second # <<>> THEN <<second[1]>>
      ELSE <<>>

\* $main('a[href*="gotaukulele.com"]'): the positions of the selected anchors
AnchorPositions(nodes) ==
  LET Selected(i) == nodes[i].type = "tag" /\ nodes[i].name = "a"
                     /\ nodes[i].href \in DomainHrefs
  IN  SelectSeq(Indices(Len(nodes)), Selected)

\* the callback of .each for the i-th selected anchor (i counts from 0):
\* [error, data], data holding the record pushed, if any
ReviewDataOf(nodes, pos, i, priceTitleNodes) ==
  LET href == nodes[pos].href
      linkText == Trim(nodes[pos].text)
      match == RatingMatch(FollowingText(nodes, pos))
      price == ExtractReviewPrice(pos, priceTitleNodes, nodes)
  IN  IF href \in IndexHrefs \/ Len(linkText) < MinLinkText \/ match = <<>>
      THEN [error |-> "none", data |-> <<>>]
      ELSE IF price.error # "none"
           THEN [error |-> price.error, data |-> <<>>]
           ELSE [error |-> "none",
                 data |-> << [title |-> linkText,
                              url |-> ReviewUrl(href),
                              rating |-> ParseFloat(match[1].num),
                              priceRange |-> price.priceRange,
                              reviewDate |-> ParseReviewDate(Trim(match[1].date)),
                              size |-> ExtractSize(linkText),
                              index |-> i] >>]

RECURSIVE CollectReviewData(_, _, _, _)
CollectReviewData(nodes, anchors, k, priceTitleNodes) ==
  IF k = 0 THEN [error |-> "none", data |-> <<>>]
  ELSE LET before == CollectReviewData(nodes, anchors, k - 1, priceTitleNodes)
           this == ReviewDataOf(nodes, anchors[k], k - 1, priceTitleNodes)
       IN  IF before.error # "none" THEN before
           ELSE [error |-> this.error, data |-> before.data \o this.data]

\* allReviewData.map(...)
ToReview(reviewData, brandList) ==
  LET brandModel == ExtractBrandAndModel(reviewData.title, brandList)
  IN  Review(reviewData.size, brandModel.brand, brandModel.model,
             reviewData.priceRange, reviewData.url, reviewData.rating,
             reviewData.reviewDate)

\* extractAllReviews from the parsed page up to the review list
ParseReviews(page) ==
  LET brandList == ExtractBrandsFromTagCloud(page.cloud)
      anchors == AnchorPositions(page.nodes)
      all == CollectReviewData(page.nodes, anchors, Len(anchors), PriceTitleNodes(page.nodes))
  IN  [error |-> all.error,
       allReviewData |-> all.data,
       reviews |-> [i \in 1..Len(all.data) |-> ToReview(all.data[i], brandList)]]

(***************************************************************************)
(* Values of the variables of a part of the model that is not running       *)
(***************************************************************************)
NoBrand == [done |-> FALSE, brand |-> <<>>]

EmptyReport ==
  [changes |-> [new |-> <<>>, updated |-> <<>>, removed |-> <<>>],
   summary |-> [totalPrevious |-> 0, totalCurrent |-> 0, netChange |-> 0]]

NoReport == [done |-> FALSE, report |-> EmptyReport]

EmptyPage == [nodes |-> <<>>, cloud |-> <<>>]

NoExtract == [done |-> FALSE, error |-> "none", allReviewData |-> <<>>, reviews |-> <<>>]

BrandIdle == bTitle = <<>> /\ bList = <<>> /\ bResult = NoBrand

DiffIdle == dPrev = NullData /\ dCurr = <<>> /\ dReport = NoReport /\ dDetector = NoReport

ExtractIdle == xPage = EmptyPage /\ xOut = NoExtract

SeqsUpTo(S, n) == UNION {[1..k -> S] : k \in 0..n}

NoRepeat(seq) == \A i, j \in 1..Len(seq) : i # j => seq[i] # seq[j]

(***************************************************************************)
(* findBestMatchingBrand on bounded titles and catalogs                     *)
(***************************************************************************)
TitleChars == {"a", "B", " "}

BrandNames == { <<"A">>, <<"A","B">>, <<"B","A">>, <<"B"," ","A">> }

KalaCatalog == << <<"K","A","L","A">>, <<"K","A","L","A"," ","B","R","A","N","D">> >>

KalaTitle == <<"K","a","l","a"," ","B","r","a","n","d"," ","K","A","-","S"," ","S","o","p","r","a","n","o">>

BrandTitles == SeqsUpTo(TitleChars, MaxTitleLen) \cup {KalaTitle}

BrandCatalogs ==
  {c \in SeqsUpTo(BrandNames, MaxCatalog) : NoRepeat(c)} \cup {KalaCatalog}

BrandInit ==
  /\ bTitle \in BrandTitles
  /\ bList \in BrandCatalogs
  /\ bResult = NoBrand

FindBrand ==
  /\ ~bResult.done
  /\ bResult' = [done |-> TRUE, brand |-> FindBestMatchingBrand(bTitle, bList)]
  /\ UNCHANGED <<bTitle, bList>>
  /\ UNCHANGED <<diffVars, extractVars, scrapeVars, cacheVars, normVars, loadVars, filterVars, pipelineVars>>

(***************************************************************************)
(* generateDiffReport on bounded review lists                               *)
(***************************************************************************)
DiffUrls == {HrefKala, HrefOhana, HrefIndex}

DiffRatings == {75, 80}

DiffRecords ==
  {Review(<<"t","e","n","o","r">>, <<"K","A","L","A">>, <<"K","A","-","T">>, "<50", u, r, <<"2","0","2","1","-","0","3","-","0","1">>) :
     u \in DiffUrls, r \in DiffRatings}

DiffLists == SeqsUpTo(DiffRecords, MaxDiffLen)

DiffInit ==
  /\ dPrev \in {NullData} \cup {ArrayData(l) : l \in DiffLists}
  /\ dCurr \in DiffLists
  /\ dReport = NoReport
  /\ dDetector = NoReport

DiffApply ==
  /\ ~dReport.done
  /\ dReport' = [done |-> TRUE, report |-> GenerateDiffReport(dPrev, dCurr)]
  /\ UNCHANGED <<dPrev, dCurr, dDetector>>
  /\ UNCHANGED <<brandVars, extractVars, scrapeVars, cacheVars, normVars, loadVars, filterVars, pipelineVars>>

(***************************************************************************)
(* Pages: a page is a list of lines, each a short run of sibling nodes      *)
(***************************************************************************)
KalaLinkText == <<"K","a","l","a"," ","T","e","n","o","r">>

OhanaLinkText == <<"O","h","a","n","a"," ","u","k","e">>

LinkTextOf(href) == IF href = HrefKala THEN KalaLinkText ELSE OhanaLinkText

RatingText == TextNode("out of 10", <<"8",".","5">>, <<"M","a","r"," ","2","0","2","1">>, 27)

\* a heading whose span holds the title as its only text node
HeadingLine(k) == << HeadingNode(PriceTitles[k], PriceTitles[k]) >>

\* <span>Ukuleles <i>...</i></span>: the first child holds part of the title
NestedHeadingLine(k) == << HeadingNode(PriceTitles[k], <<"U","k","u","l","e","l","e","s"," ">>) >>

ReviewLine(href) == << AnchorNode(href, LinkTextOf(href), FALSE), RatingText >>

BareLine(href) == << AnchorNode(href, LinkTextOf(href), FALSE) >>

PageLines ==
  {HeadingLine(1), HeadingLine(5), NestedHeadingLine(1),
   ReviewLine(HrefKala), ReviewLine(HrefOhana), BareLine(HrefKala)}

RECURSIVE Flatten(_)
Flatten(lines) ==
  IF lines = <<>> THEN <<>> ELSE Head(lines) \o Flatten(Tail(lines))

TagCloud == << <<"K","a","l","a">> >>

Pages(n) == {[nodes |-> Flatten(ls), cloud |-> TagCloud] : ls \in SeqsUpTo(PageLines, n)}

ExtractInit ==
  /\ xPage \in Pages(MaxLines)
  /\ xOut = NoExtract

ExtractApply ==
  /\ ~xOut.done
  /\ xOut' = [done |-> TRUE] @@ ParseReviews(xPage)
  /\ UNCHANGED xPage
  /\ UNCHANGED <<brandVars, diffVars, scrapeVars, cacheVars, normVars, loadVars, filterVars, pipelineVars>>

(***************************************************************************)
(* Pages for the anchor loop: every line ends with a <br>, and the lines    *)
(* differ in the anchor (its href, its text, whether it sits in a <b>) and  *)
(* in the text that follows it                                              *)
(***************************************************************************)
ShortLinkText == <<"U","k","e"," ">>

IndexLinkText == <<"U","k","u","l","e","l","e"," ","r","e","v","i","e","w","s">>

\* " - 7 out 10 (2019)", " - 9/10 (Dec 2020)", " - 6 out of 10 (Jun 2018)"
OutTenText == TextNode("out 10", <<"7">>, <<"2","0","1","9">>, 18)

SlashTenText == TextNode("/10", <<"9">>, <<"D","e","c"," ","2","0","2","0">>, 18)

IndexRatingText == TextNode("out of 10", <<"6">>, <<"J","u","n"," ","2","0","1","8">>, 25)

\* " - more about it", and a long note that holds 'out' and no rating
AboutText == TextNode("about", <<>>, <<>>, 16)

LongAboutText == TextNode("about", <<>>, <<>>, FollowingLimit)

Line(anchor, texts) == <<anchor>> \o texts \o <<BrNode>>

AnchorLines ==
  { HeadingLine(1),
    Line(AnchorNode(HrefKala, KalaLinkText, FALSE), <<RatingText>>),
    Line(AnchorNode(HrefOhana, OhanaLinkText, FALSE), <<OutTenText>>),
    Line(AnchorNode(HrefOhana, OhanaLinkText, FALSE), <<SlashTenText>>),
    Line(AnchorNode(HrefOhana, OhanaLinkText, TRUE), <<SlashTenText>>),
    Line(AnchorNode(HrefKala, KalaLinkText, FALSE), <<>>),
    Line(AnchorNode(HrefKala, KalaLinkText, FALSE), <<AboutText>>),
    Line(AnchorNode(HrefKala, KalaLinkText, FALSE), <<LongAboutText, IndexRatingText>>),
    Line(AnchorNode(HrefIndex, IndexLinkText, FALSE), <<IndexRatingText>>),
    Line(AnchorNode(HrefKala, ShortLinkText, FALSE), <<IndexRatingText>>),
    Line(AnchorNode(HrefElsewhere, KalaLinkText, FALSE), <<IndexRatingText>>) }

AnchorPages ==
  {[nodes |-> Flatten(ls), cloud |-> TagCloud] : ls \in SeqsUpTo(AnchorLines, MaxAnchorLines)}

AnchorsInit ==
  /\ xPage \in AnchorPages
  /\ xOut = NoExtract

(***************************************************************************)
(* scrape(): one run, from the request to the two file writes               *)
(***************************************************************************)
RequestOutcomes == {"ok", "network error", "status 500", "timeout"}

\* makeRequest with a retry after a failure, which then succeeds
MakeRequestRetrying(outcome, page) ==
  [error |-> "none", attempts |-> IF outcome = "ok" THEN 1 ELSE 2, data |-> page]

\* makeRequest: one axios.get; a failure is logged and rethrown
MakeRequest(outcome, page) ==
  IF outcome = "ok"
  THEN [error |-> "none", attempts |-> 1, data |-> page]
  ELSE [error |-> outcome, attempts |-> 1, data |-> EmptyPage]

MetadataSizes ==
  << <<"S","o","p","r","a","n","o">>, <<"C","o","n","c","e","r","t">>, <<"T","e","n","o","r">>, <<"B","a","r","i","t","o","n","e">>, <<"S","o","p","r","a","n","i","n","o">>, <<"O","t","h","e","r">> >>

MetadataPriceRanges == <<"<50", "50-100", "100-200", "200-500", "500+">>

\* metadata.sizes.map((s) => s.toLowerCase())
MetadataSizesLower == {ToLowerCase(MetadataSizes[i]) : i \in 1..Len(MetadataSizes)}

NoMetadata == [exists |-> FALSE, brands |-> <<>>, sizes |-> <<>>, priceRanges |-> <<>>]

NoReviewsFile == [exists |-> FALSE, data |-> <<>>, total |-> 0, diffReport |-> EmptyReport]

\* saveBrandMetadata without the two validations
SaveBrandMetadataUnchecked(reviews, writeOk) ==
  IF ~writeOk
  THEN [error |-> "write failed", written |-> FALSE, metadata |-> NoMetadata]
  ELSE [error |-> "none", written |-> TRUE,
        metadata |-> [exists |-> TRUE,
                      brands |-> SortStrings({reviews[i].brand : i \in 1..Len(reviews)}),
                      sizes |-> MetadataSizes,
                      priceRanges |-> MetadataPriceRanges]]

\* saveBrandMetadata: [error, written, metadata]; writeOk is whether
\* fs.writeFile succeeds
SaveBrandMetadata(reviews, writeOk) ==
  LET brandSet == {reviews[i].brand : i \in 1..Len(reviews)}
      sizeSet == {reviews[i].size : i \in 1..Len(reviews)}
      priceRangeSet == {reviews[i].priceRange : i \in 1..Len(reviews)}
  IN  IF ~(\A pr \in priceRangeSet : pr \in Range(MetadataPriceRanges))
      THEN [error |-> "Unexpected price ranges found in reviews",
            written |-> FALSE, metadata |-> NoMetadata]
      ELSE IF ~(\A sz \in sizeSet : sz \in MetadataSizesLower)
      THEN [error |-> "Unexpected sizes found in reviews",
            written |-> FALSE, metadata |-> NoMetadata]
      ELSE IF ~writeOk
      THEN [error |-> "write failed", written |-> FALSE, metadata |-> NoMetadata]
      ELSE [error |-> "none", written |-> TRUE,
            metadata |-> [exists |-> TRUE,
                          brands |-> SortStrings(brandSet),
                          sizes |-> MetadataSizes,
                          priceRanges |-> MetadataPriceRanges]]

\* JSON.parse(JSON.stringify(review)): NaN is written as null
NullRating == 0 - 2

JsonReview(review) ==
  [review EXCEPT !.rating = IF review.rating = NaN THEN NullRating ELSE review.rating]

JsonData(reviews) == [i \in 1..Len(reviews) |-> JsonReview(reviews[i])]

\* the try block reading a file whose data field is missing
LoadPreviousDataEmpty(reviewsFile, readOk) ==
  IF reviewsFile.exists /\ readOk THEN ArrayData(<<>>) ELSE NullData

\* the try block that loads ukulele-reviews.json: parsed.data || []
LoadPreviousData(reviewsFile, readOk) ==
  IF reviewsFile.exists /\ readOk THEN ArrayData(reviewsFile.data) ELSE NullData

NoRun ==
  [status |-> "idle", error |-> "none", request |-> "ok", requests |-> 0,
   assembled |-> FALSE, reviews |-> <<>>, previousData |-> NullData,
   wroteMeta |-> FALSE, wroteReviews |-> FALSE]

ScrapeIdle == fsMeta = NoMetadata /\ fsReviews = NoReviewsFile /\ run = NoRun

Failed(r, error) == [r EXCEPT !.status = "failed", !.error = error]

RunLines ==
  {HeadingLine(1), NestedHeadingLine(1), ReviewLine(HrefKala), ReviewLine(HrefOhana)}

RunPages ==
  {[nodes |-> Flatten(ls), cloud |-> TagCloud] : ls \in SeqsUpTo(RunLines, MaxRunLines)}

\* The parse is a function of the page alone: it is tabulated once for the
\* pages that can be served, and pages with the same parse give the same
\* run, so one page stands for each parse.
ParsedPage == [page \in RunPages \cup {EmptyPage} |-> ParseReviews(page)]

ServedPages ==
  {CHOOSE page \in RunPages : ParsedPage[page] = parsed :
     parsed \in {ParsedPage[page] : page \in RunPages}}

\* scrape() from the zero-reviews check to the write of
\* ukulele-reviews.json; r is the record of the run so far, metadata the
\* other-data.json just written
ScrapeWrite(r, reviews, metadata, previousData, reviewsWriteOk, reviewsFile) ==
  IF Len(reviews) = 0
  THEN [run |-> Failed(r, "No reviews found"), meta |-> metadata, reviews |-> reviewsFile]
  ELSE IF ~reviewsWriteOk
  THEN [run |-> Failed([r EXCEPT !.previousData = previousData], "write failed"),
        meta |-> metadata, reviews |-> reviewsFile]
  ELSE [run |-> [r EXCEPT !.status = "ok", !.previousData = previousData,
                          !.wroteReviews = TRUE],
        meta |-> metadata,
        reviews |-> [exists |-> TRUE, data |-> JsonData(reviews),
                     total |-> Len(reviews),
                     diffReport |-> GenerateDiffReport(previousData, reviews)]]

\* the end of extractAllReviews: saved is the result of
\* saveBrandMetadata(reviews), whose error leaves the run
ScrapeSaved(r, reviews, saved, readOk, reviewsWriteOk, metaFile, reviewsFile) ==
  IF saved.error # "none"
  THEN [run |-> Failed(r, saved.error), meta |-> metaFile, reviews |-> reviewsFile]
  ELSE ScrapeWrite([r EXCEPT !.wroteMeta = TRUE], reviews, saved.metadata,
                   LoadPreviousData(reviewsFile, readOk), reviewsWriteOk, reviewsFile)

\* extractAllReviews once the page is parsed and the records assembled
ScrapeParsed(r, parsed, metaWriteOk, readOk, reviewsWriteOk, metaFile, reviewsFile) ==
  IF parsed.error # "none"
  THEN [run |-> Failed(r, parsed.error), meta |-> metaFile, reviews |-> reviewsFile]
  ELSE ScrapeSaved([r EXCEPT !.assembled = TRUE, !.reviews = parsed.reviews],
                   parsed.reviews, SaveBrandMetadata(parsed.reviews, metaWriteOk),
                   readOk, reviewsWriteOk, metaFile, reviewsFile)

\* extractAllReviews once makeRequest has answered
ScrapeResponse(r, response, metaWriteOk, readOk, reviewsWriteOk, metaFile, reviewsFile) ==
  IF response.error # "none"
  THEN [run |-> Failed(r, response.error), meta |-> metaFile, reviews |-> reviewsFile]
  ELSE ScrapeParsed(r, ParsedPage[response.data],
                    metaWriteOk, readOk, reviewsWriteOk, metaFile, reviewsFile)

\* the request is counted in the record of the run
Requested(outcome, response) ==
  [NoRun EXCEPT !.request = outcome, !.requests = response.attempts]

\* The run as a function of its inputs: the page served, the outcome of
\* the request, and whether each file operation succeeds.  The result is
\* the record of the run and the two files after it.
ScrapeRequest(response, outcome, metaWriteOk, readOk, reviewsWriteOk, metaFile, reviewsFile) ==
  ScrapeResponse(Requested(outcome, response), response,
                 metaWriteOk, readOk, reviewsWriteOk, metaFile, reviewsFile)

ScrapeRun(page, outcome, metaWriteOk, readOk, reviewsWriteOk, metaFile, reviewsFile) ==
  ScrapeRequest(MakeRequest(outcome, page), outcome,
                metaWriteOk, readOk, reviewsWriteOk, metaFile, reviewsFile)

ScrapeInit == ScrapeIdle

\* new UkuleleReviewsScraper().scrape(): the file operations that follow a
\* failed request are never reached, so their outcomes are not enumerated
Scrape ==
  \E page \in ServedPages, outcome \in RequestOutcomes :
    \E metaWriteOk \in (IF outcome = "ok" THEN BOOLEAN ELSE {TRUE}),
       readOk \in (IF outcome = "ok" /\ fsReviews.exists THEN BOOLEAN ELSE {TRUE}),
       reviewsWriteOk \in (IF outcome = "ok" THEN BOOLEAN ELSE {TRUE}) :
      \E result \in {ScrapeRun(page, outcome, metaWriteOk, readOk, reviewsWriteOk,
                                fsMeta, fsReviews)} :
          /\ run' = result.run
          /\ fsMeta' = result.meta
          /\ fsReviews' = result.reviews
          /\ UNCHANGED <<brandVars, diffVars, extractVars, cacheVars, normVars, loadVars, filterVars, pipelineVars>>

(***************************************************************************)
(* ChangeDetector (change-detector.js)                                      *)
(*                                                                          *)
(* this.cache is null or {lastRun, urls, metadata: {created, totalRuns}};   *)
(* urls maps the MD5 of a url to its entry.  Timestamps are left out.       *)
(***************************************************************************)
\* crypto.createHash('md5').update(url).digest('hex')
GenerateHash(url) ==
  IF url = HrefKala THEN "7ef502998d97a38645d482d2732ee26d"
  ELSE IF url = HrefOhana THEN "0e39197ed296d9214d1a64419508b2ca"
  ELSE "d41d8cd98f00b204e9800998ecf8427e"

CacheUrls == {HrefKala, HrefOhana}

CacheHashes == {GenerateHash(u) : u \in CacheUrls}

\* a content hash: null, or a non-empty string
NullHash == "null"

ContentHashes == {"h1", "h2"}

\* no entry under a key of urls
NoEntry == [present |-> FALSE, url |-> "", contentHash |-> NullHash]

EmptyUrls == [h \in CacheHashes |-> NoEntry]

NullCache == [isNull |-> TRUE, lastRun |-> FALSE, urls |-> EmptyUrls, totalRuns |-> 0]

\* the object built by loadCache's catch block and by startNewRun
FreshCache == [isNull |-> FALSE, lastRun |-> FALSE, urls |-> EmptyUrls, totalRuns |-> 0]

\* the cache file: missing, unparsable, or the JSON of a cache
MissingFile == [kind |-> "missing", content |-> NullCache]

CorruptFile == [kind |-> "corrupt", content |-> NullCache]

NoCall == [op |-> "none", url |-> "", contentHash |-> NullHash, result |-> FALSE, error |-> "none"]

CacheIdle ==
  /\ cache = NullCache /\ cacheFile = MissingFile /\ cdCall = NoCall
  /\ cdSeen = {} /\ cdPending = FALSE

\* what loadCache leaves in this.cache for a given file
LoadedCache(file) ==
  IF file.kind = "cache" THEN file.content ELSE FreshCache

\* isNewOrUpdated(url, contentHash = null) on the cache c
IsNewOrUpdated(c, url, contentHash) ==
  IF c.isNull THEN TRUE
  ELSE LET cached == c.urls[GenerateHash(url)]
       IN  IF ~cached.present THEN TRUE
           ELSE IF contentHash # NullHash /\ cached.contentHash # contentHash THEN TRUE
           ELSE FALSE

\* data of updateCache: with or without a contentHash key
CacheData == {[hasHash |-> FALSE, contentHash |-> NullHash]}
             \cup {[hasHash |-> TRUE, contentHash |-> h] : h \in ContentHashes}

\* the entry written by updateCache: contentHash: data.contentHash || null,
\* then ...data
CacheEntry(url, data) ==
  [present |-> TRUE, url |-> url,
   contentHash |-> IF data.hasHash THEN data.contentHash ELSE NullHash]

CacheInit ==
  /\ cache = NullCache
  /\ cacheFile \in {MissingFile, CorruptFile}
  /\ cdCall = NoCall
  /\ cdSeen = {}
  /\ cdPending = FALSE

\* await loadCache()
LoadCache ==
  /\ cache' = LoadedCache(cacheFile)
  /\ cdCall' = [NoCall EXCEPT !.op = "loadCache"]
  /\ UNCHANGED <<cacheFile, cdSeen, cdPending>>
  /\ UNCHANGED <<brandVars, diffVars, extractVars, scrapeVars, normVars, loadVars, filterVars, pipelineVars>>

\* the loadCache() that updateCache started without awaiting it completes
PendingLoadCompletes ==
  /\ cdPending
  /\ cache' = LoadedCache(cacheFile)
  /\ cdPending' = FALSE
  /\ cdCall' = [NoCall EXCEPT !.op = "loadCache"]
  /\ UNCHANGED <<cacheFile, cdSeen>>
  /\ UNCHANGED <<brandVars, diffVars, extractVars, scrapeVars, normVars, loadVars, filterVars, pipelineVars>>

\* await saveCache(): a failing mkdir or writeFile is logged and swallowed
SaveCache ==
  /\ \E writeOk \in BOOLEAN :
       cacheFile' = IF writeOk THEN [kind |-> "cache", content |-> cache] ELSE cacheFile
  /\ cdCall' = [NoCall EXCEPT !.op = "saveCache"]
  /\ UNCHANGED <<cache, cdSeen, cdPending>>
  /\ UNCHANGED <<brandVars, diffVars, extractVars, scrapeVars, normVars, loadVars, filterVars, pipelineVars>>

StartNewRun ==
  /\ cache.totalRuns < MaxTotalRuns
  /\ LET c == IF cache.isNull THEN FreshCache ELSE cache
     IN  cache' = [c EXCEPT !.lastRun = TRUE, !.totalRuns = c.totalRuns + 1]
  /\ cdCall' = [NoCall EXCEPT !.op = "startNewRun"]
  /\ UNCHANGED <<cacheFile, cdSeen, cdPending>>
  /\ UNCHANGED <<brandVars, diffVars, extractVars, scrapeVars, normVars, loadVars, filterVars, pipelineVars>>

\* updateCache(url, data): on a null cache loadCache() is started but not
\* awaited, so this.cache is still null at this.cache.urls and a TypeError
\* is thrown
UpdateCache ==
  \E url \in CacheUrls, data \in CacheData :
    /\ cdSeen' = cdSeen \cup {url}
    /\ IF cache.isNull
       THEN /\ cdPending' = TRUE
            /\ cache' = cache
            /\ cdCall' = [NoCall EXCEPT !.op = "updateCache", !.url = url,
                                        !.error = "TypeError"]
       ELSE /\ cache' = [cache EXCEPT !.urls[GenerateHash(url)] = CacheEntry(url, data)]
            /\ cdCall' = [NoCall EXCEPT !.op = "updateCache", !.url = url]
            /\ UNCHANGED cdPending
    /\ UNCHANGED cacheFile
  /\ UNCHANGED <<brandVars, diffVars, extractVars, scrapeVars, normVars, loadVars, filterVars, pipelineVars>>

IsNewOrUpdatedCall ==
  \E url \in CacheUrls, contentHash \in ContentHashes \cup {NullHash} :
    /\ cdCall' = [op |-> "isNewOrUpdated", url |-> url, contentHash |-> contentHash,
                  result |-> IsNewOrUpdated(cache, url, contentHash), error |-> "none"]
    /\ UNCHANGED <<cache, cacheFile, cdSeen, cdPending>>
  /\ UNCHANGED <<brandVars, diffVars, extractVars, scrapeVars, normVars, loadVars, filterVars, pipelineVars>>

(***************************************************************************)
(* ChangeDetector.generateDiffReport                                        *)
(***************************************************************************)
\* previousData.find((p) => p.url === url): the place of the first item
\* with that url, 0 when there is none
FindByUrl(items, url) ==
  IF \E i \in 1..Len(items) : items[i].url = url
  THEN CHOOSE i \in 1..Len(items) :
         items[i].url = url /\ \A k \in 1..(i - 1) : items[k].url # url
  ELSE 0

\* JSON.stringify(previousItem) !== JSON.stringify(currentItem)
StringifyDiffers(previousItem, currentItem) ==
  JsonReview(previousItem) # JsonReview(currentItem)

\* the forEach that fills changes.updated, without the comparison
UpdatedEntriesAll(previousItems, currentData) ==
  LET Known(i) == FindByUrl(previousItems, currentData[i].url) # 0
      hits == SelectSeq(Indices(Len(currentData)), Known)
  IN  [k \in 1..Len(hits) |->
         [url |-> currentData[hits[k]].url,
          previous |-> previousItems[FindByUrl(previousItems, currentData[hits[k]].url)],
          current |-> currentData[hits[k]]]]

\* the forEach that fills changes.updated
UpdatedEntries(previousItems, currentData) ==
  LET Changed(i) ==
        LET j == FindByUrl(previousItems, currentData[i].url)
        IN  j # 0 /\ StringifyDiffers(previousItems[j], currentData[i])
      hits == SelectSeq(Indices(Len(currentData)), Changed)
  IN  [k \in 1..Len(hits) |->
         [url |-> currentData[hits[k]].url,
          previous |-> previousItems[FindByUrl(previousItems, currentData[hits[k]].url)],
          current |-> currentData[hits[k]]]]

\* removed: previousData.filter((item) => !currentUrls.includes(item.url))
RemovedItems(previousItems, currentUrls) ==
  LET Keep(item) == item.url \notin Range(currentUrls)
  IN  SelectSeq(previousItems, Keep)

DetectorGenerateDiffReport(previousData, currentData) ==
  LET totalPrevious == IF previousData.isNull THEN 0 ELSE Len(previousData.items)
      summary == [totalPrevious |-> totalPrevious,
                  totalCurrent |-> Len(currentData),
                  netChange |-> Len(currentData) - totalPrevious]
  IN  IF previousData.isNull
      THEN [changes |-> [new |-> currentData, updated |-> <<>>, removed |-> <<>>],
            summary |-> summary]
      ELSE [changes |->
              [new |-> NewReviews(MapUrl(previousData.items), currentData),
               updated |-> UpdatedEntries(previousData.items, currentData),
               removed |-> RemovedItems(previousData.items, MapUrl(currentData))],
            summary |-> summary]

DetectorDiffApply ==
  /\ ~dDetector.done
  /\ dDetector' = [done |-> TRUE, report |-> DetectorGenerateDiffReport(dPrev, dCurr)]
  /\ UNCHANGED <<dPrev, dCurr, dReport>>
  /\ UNCHANGED <<brandVars, extractVars, scrapeVars, cacheVars, normVars, loadVars, filterVars, pipelineVars>>

(***************************************************************************)
(* The field functions on bounded texts: a text is a run of fragments       *)
(***************************************************************************)
Texts(fragments, n) == {Flatten(fs) : fs \in SeqsUpTo(fragments, n)}

NoNorm == [done |-> FALSE, op |-> "none", text |-> <<>>, brand |-> <<>>, priceRange |-> ""]

(***************************************************************************)
(* The data loaders of the page (data.ts)                                   *)
(*                                                                          *)
(* A response is what fetch gives: it rejects, or resolves with a status    *)
(* and a body.  A body is unparsable, or the JSON null, or a JSON value     *)
(* without properties of its own (a number, a string, an array), or an      *)
(* object.  A property is absent or holds one of a few JSON values.         *)
(***************************************************************************)
JsonValues == {"absent", "null", "0", "[]", "[x]", "{}", "abc"}

\* v || fallback
OrElse(v, fallback) == IF v \in {"absent", "null", "0"} THEN fallback ELSE v

Body(kind, data, metadata, brands, sizes, priceRanges) ==
  [kind |-> kind, data |-> data, metadata |-> metadata,
   brands |-> brands, sizes |-> sizes, priceRanges |-> priceRanges]

BodyWithout(kind) == Body(kind, "absent", "absent", "absent", "absent", "absent")

Bodies ==
  {BodyWithout(kind) : kind \in {"malformed", "null", "primitive"}}
    \cup {Body("object", d, m, b, z, r) :
            d \in JsonValues, m \in JsonValues, b \in JsonValues,
            z \in JsonValues, r \in JsonValues}

Responses ==
  {[fetch |-> "rejects", ok |-> FALSE, body |-> BodyWithout("malformed")]}
    \cup {[fetch |-> "resolves", ok |-> FALSE, body |-> BodyWithout("malformed")]}
    \cup {[fetch |-> "resolves", ok |-> TRUE, body |-> body] : body \in Bodies}

NoResponse == [fetch |-> "none", ok |-> FALSE, body |-> BodyWithout("malformed")]

NoLoad ==
  [fn |-> "none", threw |-> FALSE, reviews |-> "", metadata |-> "",
   brands |-> "", sizes |-> "", priceRanges |-> ""]

LoadIdle == ldResponse = NoResponse /\ ldOut = NoLoad

\* the try block throws: fetch rejects, the status is not ok, json()
\* rejects, or a property of null is read
TryThrows(response) ==
  \/ response.fetch = "rejects"
  \/ ~response.ok
  \/ response.body.kind \in {"malformed", "null"}

\* loadReviewsData(): what the promise resolves to
LoadReviewsData(response) ==
  IF TryThrows(response)
  THEN [NoLoad EXCEPT !.fn = "loadReviewsData", !.reviews = "[]", !.metadata = "{}"]
  ELSE [NoLoad EXCEPT !.fn = "loadReviewsData",
                      !.reviews = OrElse(response.body.data, "[]"),
                      !.metadata = OrElse(response.body.metadata, "{}")]

\* loadFilterOptions(): what the promise resolves to
LoadFilterOptions(response) ==
  IF TryThrows(response)
  THEN [NoLoad EXCEPT !.fn = "loadFilterOptions",
                      !.brands = "[]", !.sizes = "[]", !.priceRanges = "[]"]
  ELSE [NoLoad EXCEPT !.fn = "loadFilterOptions",
                      !.brands = OrElse(response.body.brands, "[]"),
                      !.sizes = OrElse(response.body.sizes, "[]"),
                      !.priceRanges = OrElse(response.body.priceRanges, "[]")]

LoadInit == ldResponse \in Responses /\ ldOut = NoLoad

LoadReviewsDataCall ==
  /\ ldOut.fn = "none"
  /\ ldOut' = LoadReviewsData(ldResponse)
  /\ UNCHANGED ldResponse
  /\ UNCHANGED <<brandVars, diffVars, extractVars, scrapeVars, cacheVars, normVars, filterVars, pipelineVars>>

LoadFilterOptionsCall ==
  /\ ldOut.fn = "none"
  /\ ldOut' = LoadFilterOptions(ldResponse)
  /\ UNCHANGED ldResponse
  /\ UNCHANGED <<brandVars, diffVars, extractVars, scrapeVars, cacheVars, normVars, filterVars, pipelineVars>>

NormIdle == nText = <<>> /\ nOut = NoNorm

EnyaTitle == <<"E","n","y","a"," ","E","U","C","-","m","s">>

SizeFragments ==
  { <<"S","o","p","r","a","n","o">>, <<"s","o","p","r","a","n","i","n","o">>, <<"C","o","n","c","e","r","t">>, <<"t","e","n","o","r">>, <<"B","A","R","I","T","O","N","E">>, <<"B","a","r","i">>,
    <<" ">>, <<"u","k","e">>, EnyaTitle, <<"E","N","Y","A"," ","e","u","c","-","M","S">> }

SizeTitles == Texts(SizeFragments, MaxFragments)

DateFragments ==
  { <<"(">>, <<")">>, <<" ">>, <<"M","a","r">>, <<"2","0","2","1">>, <<"D","E","C"," ","2","0","2","0">>, <<"x","y","z"," ","2","0","1","9">>,
    <<"m","a","y">>, <<"u","n","k","n","o","w","n">>, <<"1","9">> }

DateStrings == Texts(DateFragments, MaxFragments)

PriceFragments ==
  { <<"U","k","u","l","e","l","e","s"," ">>, <<"&pound;","0">>, <<"&pound;","5","0">>, <<"&pound;","1","0","0">>, <<"&pound;","2","0","0">>, <<"&pound;","5","0","0">>,
    <<" ","-"," ">>, <<"-">>, <<" ","P","l","u","s">>, <<"+">>, <<" ">> }

HeadingTexts == Texts(PriceFragments, MaxFragments) \cup Range(PriceTitles)

\* the brands of a tag cloud, as extractBrandsFromTagCloud lists them
ModelCatalog == ExtractBrandsFromTagCloud(<< <<"K","a","l","a">>, <<"K","M"," ","U","k","u","l","e","l","e","s">> >>)

ModelFragments ==
  { <<"K","a","l","a">>, <<"K","M">>, <<"F","l","i","g","h","t">>, <<" ">>, <<" ","U","k","u","l","e","l","e","s">>, <<" ","u","k","u","l","e","l","e">>, <<" ","U","k","e">>,
    <<" ","R","e","v","i","e","w">>, <<" ","K","A","-","T">>, <<" ","T","e","n","o","r">> }

ModelTitles == Texts(ModelFragments, MaxFragments)

SizeInit == nText \in SizeTitles /\ nOut = NoNorm

DateInit == nText \in DateStrings /\ nOut = NoNorm

PriceInit == nText \in HeadingTexts /\ nOut = NoNorm

ModelInit == nText \in ModelTitles /\ nOut = NoNorm

ExtractSizeCall ==
  /\ ~nOut.done
  /\ nOut' = [NoNorm EXCEPT !.done = TRUE, !.op = "extractSize",
                            !.text = ExtractSize(nText)]
  /\ UNCHANGED nText
  /\ UNCHANGED <<brandVars, diffVars, extractVars, scrapeVars, cacheVars, loadVars, filterVars, pipelineVars>>

ParseReviewDateCall ==
  /\ ~nOut.done
  /\ nOut' = [NoNorm EXCEPT !.done = TRUE, !.op = "parseReviewDate",
                            !.text = ParseReviewDate(nText)]
  /\ UNCHANGED nText
  /\ UNCHANGED <<brandVars, diffVars, extractVars, scrapeVars, cacheVars, loadVars, filterVars, pipelineVars>>

MapPriceRangeCall ==
  /\ ~nOut.done
  /\ nOut' = [NoNorm EXCEPT !.done = TRUE, !.op = "mapPriceRange",
                            !.priceRange = MapPriceRange(nText)]
  /\ UNCHANGED nText
  /\ UNCHANGED <<brandVars, diffVars, extractVars, scrapeVars, cacheVars, loadVars, filterVars, pipelineVars>>

ExtractBrandAndModelCall ==
  /\ ~nOut.done
  /\ \E result \in {ExtractBrandAndModel(nText, ModelCatalog)} :
       nOut' = [NoNorm EXCEPT !.done = TRUE, !.op = "extractBrandAndModel",
                              !.text = result.model, !.brand = result.brand]
  /\ UNCHANGED nText
  /\ UNCHANGED <<brandVars, diffVars, extractVars, scrapeVars, cacheVars, loadVars, filterVars, pipelineVars>>

(***************************************************************************)
(* filterReviews (data.ts) and the page that applies it (App.svelte)        *)
(***************************************************************************)
NoFilters == [search |-> <<>>, brand |-> <<>>, size |-> <<>>, priceRange |-> ""]

NoFiltered == [done |-> FALSE, result |-> <<>>]

FilterIdle ==
  fReviews = <<>> /\ fOrder = <<>> /\ fFilters = NoFilters /\ fOut = NoFiltered

\* a rating read from ukulele-reviews.json in arithmetic: null counts as 0
RatingNumber(rating) == IF rating = NullRating THEN 0 ELSE rating

\* Array.prototype.indexOf
IndexOf(array, x) ==
  IF \E i \in 1..Len(array) : array[i] = x
  THEN (CHOOSE i \in 1..Len(array) :
          array[i] = x /\ \A k \in 1..(i - 1) : array[k] # x) - 1
  ELSE 0 - 1

\* the comparison function handed to sort
CompareReviews(priceOrder, a, b) ==
  LET aPrice == IndexOf(priceOrder, a.priceRange)
      bPrice == IndexOf(priceOrder, b.priceRange)
  IN  IF aPrice # bPrice
      THEN aPrice - bPrice
      ELSE RatingNumber(b.rating) - RatingNumber(a.rating)

\* Array.prototype.sort with that comparison: a stable sort
RECURSIVE SortReviews(_, _)
SortReviews(items, priceOrder) ==
  IF items = <<>> THEN <<>>
  ELSE LET front == SortReviews(SubSeq(items, 1, Len(items) - 1), priceOrder)
           last == items[Len(items)]
           n == Cardinality({i \in 1..Len(front) :
                               CompareReviews(priceOrder, front[i], last) <= 0})
       IN  SubSeq(front, 1, n) \o <<last>> \o SubSeq(front, n + 1, Len(front))

\* the callback of reviews.filter
KeepsReview(review, filters) ==
  LET searchTerm == Trim(ToLowerCase(filters.search))
      brandModel == ToLowerCase(review.brand \o <<" ">> \o review.model)
      matchesBrand == Includes(ToLowerCase(review.brand), searchTerm)
      matchesModel == Includes(ToLowerCase(review.model), searchTerm)
      matchesCombined == Includes(brandModel, searchTerm)
  IN  /\ searchTerm # <<>> => (matchesBrand \/ matchesModel \/ matchesCombined)
      /\ ~(filters.brand # <<>> /\ review.brand # filters.brand)
      /\ ~(filters.size # <<>> /\ review.size # filters.size)
      /\ ~(filters.priceRange # "" /\ review.priceRange # filters.priceRange)

\* filterReviews that returns the filtered list as it stands
FilterReviewsUnsorted(reviews, priceOrder, filters) ==
  LET Keep(review) == KeepsReview(review, filters)
  IN  SelectSeq(reviews, Keep)

FilterReviews(reviews, priceOrder, filters) ==
  LET Keep(review) == KeepsReview(review, filters)
  IN  SortReviews(SelectSeq(reviews, Keep), priceOrder)

FilterReview(brand, model, size, priceRange, rating) ==
  [brand |-> brand, model |-> model, size |-> size,
   priceRange |-> priceRange, rating |-> rating]

FilterRecords ==
  { FilterReview(<<"K","A","L","A">>, <<"K","A","-","T">>, <<"t","e","n","o","r">>, "<50", 75),
    FilterReview(<<"K","A","L","A">>, <<"K","A","-","T">>, <<"t","e","n","o","r">>, "<50", NullRating),
    FilterReview(<<"K","A","L","A">>, <<"K","A","-","S">>, <<"s","o","p","r","a","n","o">>, "50-100", 80),
    FilterReview(<<"O","H","A","N","A">>, <<"T","K","-","1","0">>, <<"t","e","n","o","r">>, "<50", 80),
    FilterReview(<<"O","H","A","N","A">>, <<"S","K","-","1","0">>, <<"s","o","p","r","a","n","o">>, "50-100", 75) }

FilterLists == SeqsUpTo(FilterRecords, MaxFilterLen)

\* filterOptions.priceRanges as loadFilterOptions returns it: the list of
\* other-data.json, or [] when the file could not be loaded
PriceOrders == {MetadataPriceRanges, <<>>}

\* what can be typed in the search box
SearchTerms == {<<>>, <<"k","a">>, <<" ","K","a"," ">>, <<"a"," ","k">>, <<" ">>}

BrandOptions == {<<>>, <<"K","A","L","A">>, <<"O","H","A","N","A">>}

\* the values of the size selector: 'All Sizes' and each of
\* filterOptions.sizes; a caller of filterReviews can also pass a size as
\* the reviews spell it
SizeOptions == {<<>>} \cup Range(MetadataSizes)

SizeFilters == SizeOptions \cup {<<"t","e","n","o","r">>}

PriceOptions == {"", "<50", "50-100"}

FilterInit ==
  /\ fReviews \in FilterLists
  /\ fOrder \in PriceOrders
  /\ fFilters = NoFilters
  /\ fOut = NoFiltered

\* the reactive block of the page: filteredReviews = filterReviews(...)
FilterReviewsCall ==
  /\ ~fOut.done
  /\ \E search \in SearchTerms, brand \in BrandOptions,
        size \in SizeFilters, priceRange \in PriceOptions :
       \E filters \in {[search |-> search, brand |-> brand, size |-> size,
                        priceRange |-> priceRange]} :
         /\ fFilters' = filters
         /\ fOut' = [done |-> TRUE, result |-> FilterReviews(fReviews, fOrder, filters)]
  /\ UNCHANGED <<fReviews, fOrder>>
  /\ UNCHANGED <<brandVars, diffVars, extractVars, scrapeVars, cacheVars, normVars, loadVars, pipelineVars>>

(***************************************************************************)
(* The asynchronous steps of new UkuleleReviewsScraper() followed by        *)
(* scrape(): the constructor starts ensureOutputDir() without awaiting it,  *)
(* so the mkdir settles at any later point                                  *)
(***************************************************************************)
PipelineIdle ==
  /\ pMkdir = "none"
  /\ pDir = FALSE
  /\ pPc = "new"
  /\ pTotal = 0
  /\ pEvents = <<>>

\* the output directory may or may not exist before the program starts
PipelineInit ==
  /\ pMkdir = "none"
  /\ pDir \in BOOLEAN
  /\ pPc = "new"
  /\ pTotal = 0
  /\ pEvents = <<>>

\* the constructor: this.ensureOutputDir() issues fs.mkdir and returns
Construct ==
  /\ pPc = "new"
  /\ pPc' = "constructed"
  /\ pMkdir' = "pending"
  /\ UNCHANGED <<pDir, pTotal, pEvents>>
  /\ UNCHANGED <<brandVars, diffVars, extractVars, scrapeVars, cacheVars, normVars, loadVars, filterVars>>

\* fs.mkdir(outputDir, {recursive: true}) takes effect on the disk: the
\* directory exists, the promise is not settled yet
MkdirCreates ==
  /\ pMkdir = "pending"
  /\ pPc # "crashed"
  /\ pMkdir' = "created"
  /\ pDir' = TRUE
  /\ UNCHANGED <<pPc, pTotal, pEvents>>
  /\ UNCHANGED <<brandVars, diffVars, extractVars, scrapeVars, cacheVars, normVars, loadVars, filterVars>>

\* the mkdir promise is fulfilled and ensureOutputDir logs and returns
MkdirSucceeds ==
  /\ pMkdir = "created"
  /\ pPc # "crashed"
  /\ pMkdir' = "fulfilled"
  /\ pEvents' = Append(pEvents, "mkdir")
  /\ UNCHANGED <<pDir, pPc, pTotal>>
  /\ UNCHANGED <<brandVars, diffVars, extractVars, scrapeVars, cacheVars, normVars, loadVars, filterVars>>

\* fs.mkdir fails: ensureOutputDir rethrows and nothing handles the
\* rejection; the runtime either ends the process or only warns
MkdirFails ==
  /\ pMkdir = "pending"
  /\ pPc # "crashed"
  /\ ~pDir
  /\ pMkdir' = "rejected"
  /\ pEvents' = Append(pEvents, "mkdir failed")
  /\ \E ends \in BOOLEAN : pPc' = IF ends THEN "crashed" ELSE pPc
  /\ UNCHANGED <<pDir, pTotal>>
  /\ UNCHANGED <<brandVars, diffVars, extractVars, scrapeVars, cacheVars, normVars, loadVars, filterVars>>

\* scrape() up to its first await: extractAllReviews issues axios.get
ScrapeCall ==
  /\ pPc = "constructed"
  /\ pPc' = "request"
  /\ UNCHANGED <<pMkdir, pDir, pTotal, pEvents>>
  /\ UNCHANGED <<brandVars, diffVars, extractVars, scrapeVars, cacheVars, normVars, loadVars, filterVars>>

\* the request is answered: the page is parsed and saveBrandMetadata
\* issues the write of other-data.json
RequestSucceeds ==
  /\ pPc = "request"
  /\ \E total \in 0..MaxFound : pTotal' = total
  /\ pPc' = "metadata write"
  /\ pEvents' = Append(pEvents, "request")
  /\ UNCHANGED <<pMkdir, pDir>>
  /\ UNCHANGED <<brandVars, diffVars, extractVars, scrapeVars, cacheVars, normVars, loadVars, filterVars>>

RequestFails ==
  /\ pPc = "request"
  /\ pPc' = "failed"
  /\ pEvents' = Append(pEvents, "request failed")
  /\ UNCHANGED <<pMkdir, pDir, pTotal>>
  /\ UNCHANGED <<brandVars, diffVars, extractVars, scrapeVars, cacheVars, normVars, loadVars, filterVars>>

\* fs.writeFile(other-data.json) settles: it fails when the directory is
\* missing or the disk refuses the write; after it scrape() throws on an empty list or goes on to read
\* the previous file
MetadataWriteSettles ==
  /\ pPc = "metadata write"
  /\ \E diskOk \in BOOLEAN :
     IF ~pDir \/ ~diskOk
     THEN /\ pPc' = "failed"
          /\ pEvents' = Append(pEvents, "metadata write failed")
     ELSE /\ pPc' = IF pTotal = 0 THEN "failed" ELSE "load previous"
          /\ pEvents' = Append(pEvents, "metadata write")
  /\ UNCHANGED <<pMkdir, pDir, pTotal>>
  /\ UNCHANGED <<brandVars, diffVars, extractVars, scrapeVars, cacheVars, normVars, loadVars, filterVars>>

\* the try block around readdir and readFile settles (its failure is
\* caught) and the write of ukulele-reviews.json is issued
LoadPreviousSettles ==
  /\ pPc = "load previous"
  /\ pPc' = "reviews write"
  /\ pEvents' = Append(pEvents, "load previous")
  /\ UNCHANGED <<pMkdir, pDir, pTotal>>
  /\ UNCHANGED <<brandVars, diffVars, extractVars, scrapeVars, cacheVars, normVars, loadVars, filterVars>>

\* fs.writeFile(ukulele-reviews.json) settles
ReviewsWriteSettles ==
  /\ pPc = "reviews write"
  /\ \E diskOk \in BOOLEAN :
     IF ~pDir \/ ~diskOk
     THEN /\ pPc' = "failed"
          /\ pEvents' = Append(pEvents, "reviews write failed")
     ELSE /\ pPc' = "done"
          /\ pEvents' = Append(pEvents, "reviews write")
  /\ UNCHANGED <<pMkdir, pDir, pTotal>>
  /\ UNCHANGED <<brandVars, diffVars, extractVars, scrapeVars, cacheVars, normVars, loadVars, filterVars>>

(* Specifications                                                           *)
(***************************************************************************)
Init == BrandIdle /\ DiffIdle /\ ExtractIdle /\ ScrapeInit /\ CacheIdle /\ NormIdle /\ LoadIdle /\ FilterIdle /\ PipelineIdle

Next == Scrape

Spec == Init /\ [][Next]_vars

InitBrand == BrandInit /\ DiffIdle /\ ExtractIdle /\ ScrapeIdle /\ CacheIdle /\ NormIdle /\ LoadIdle /\ FilterIdle /\ PipelineIdle

NextBrand == FindBrand

SpecBrand == InitBrand /\ [][NextBrand]_vars

InitDiff == BrandIdle /\ DiffInit /\ ExtractIdle /\ ScrapeIdle /\ CacheIdle /\ NormIdle /\ LoadIdle /\ FilterIdle /\ PipelineIdle

NextDiff ==
  \/ DiffApply
  \/ DetectorDiffApply

SpecDiff == InitDiff /\ [][NextDiff]_vars

InitExtract == BrandIdle /\ DiffIdle /\ ExtractInit /\ ScrapeIdle /\ CacheIdle /\ NormIdle /\ LoadIdle /\ FilterIdle /\ PipelineIdle

NextExtract == ExtractApply

SpecExtract == InitExtract /\ [][NextExtract]_vars

InitCache == BrandIdle /\ DiffIdle /\ ExtractIdle /\ ScrapeIdle /\ CacheInit /\ NormIdle /\ LoadIdle /\ FilterIdle /\ PipelineIdle

NextCache ==
  \/ LoadCache
  \/ PendingLoadCompletes
  \/ SaveCache
  \/ StartNewRun
  \/ UpdateCache
  \/ IsNewOrUpdatedCall

SpecCache == InitCache /\ [][NextCache]_vars

InitSize == BrandIdle /\ DiffIdle /\ ExtractIdle /\ ScrapeIdle /\ CacheIdle /\ SizeInit /\ LoadIdle /\ FilterIdle /\ PipelineIdle

NextSize == ExtractSizeCall

SpecSize == InitSize /\ [][NextSize]_vars

InitDate == BrandIdle /\ DiffIdle /\ ExtractIdle /\ ScrapeIdle /\ CacheIdle /\ DateInit /\ LoadIdle /\ FilterIdle /\ PipelineIdle

NextDate == ParseReviewDateCall

SpecDate == InitDate /\ [][NextDate]_vars

InitPrice == BrandIdle /\ DiffIdle /\ ExtractIdle /\ ScrapeIdle /\ CacheIdle /\ PriceInit /\ LoadIdle /\ FilterIdle /\ PipelineIdle

NextPrice == MapPriceRangeCall

SpecPrice == InitPrice /\ [][NextPrice]_vars

InitModel == BrandIdle /\ DiffIdle /\ ExtractIdle /\ ScrapeIdle /\ CacheIdle /\ ModelInit /\ LoadIdle /\ FilterIdle /\ PipelineIdle

NextModel == ExtractBrandAndModelCall

SpecModel == InitModel /\ [][NextModel]_vars

InitLoad == BrandIdle /\ DiffIdle /\ ExtractIdle /\ ScrapeIdle /\ CacheIdle /\ NormIdle /\ LoadInit /\ FilterIdle /\ PipelineIdle

NextLoad ==
  \/ LoadReviewsDataCall
  \/ LoadFilterOptionsCall

SpecLoad == InitLoad /\ [][NextLoad]_vars

InitAnchors == BrandIdle /\ DiffIdle /\ AnchorsInit /\ ScrapeIdle /\ CacheIdle /\ NormIdle /\ LoadIdle /\ FilterIdle /\ PipelineIdle

SpecAnchors == InitAnchors /\ [][NextExtract]_vars

InitFilter == BrandIdle /\ DiffIdle /\ ExtractIdle /\ ScrapeIdle /\ CacheIdle /\ NormIdle /\ LoadIdle /\ FilterInit /\ PipelineIdle

NextFilter == FilterReviewsCall

SpecFilter == InitFilter /\ [][NextFilter]_vars

InitPipeline == BrandIdle /\ DiffIdle /\ ExtractIdle /\ ScrapeIdle /\ CacheIdle /\ NormIdle /\ LoadIdle /\ FilterIdle /\ PipelineInit

NextPipeline ==
  \/ Construct
  \/ MkdirCreates
  \/ MkdirSucceeds
  \/ MkdirFails
  \/ ScrapeCall
  \/ RequestSucceeds
  \/ RequestFails
  \/ MetadataWriteSettles
  \/ LoadPreviousSettles
  \/ ReviewsWriteSettles

SpecPipeline == InitPipeline /\ [][NextPipeline]_vars

(***************************************************************************)
(* Properties                                                               *)
(***************************************************************************)
IsPriceHeading(nodes, i) ==
  /\ IsHeading(nodes[i])
  /\ \E k \in 1..Len(PriceTitles) : StartsWith(Trim(nodes[i].text), PriceTitles[k])

Largest(set) == CHOOSE i \in set : \A k \in set : k <= i

\* C1: every record whose anchor has a price-range heading at or before it
\* carries the category of the nearest such heading in document order,
\* whatever the order of the headings in priceTitleNodes.
C1_NearestPrecedingHeading ==
  (xOut.done /\ xOut.error = "none") =>
    LET nodes == xPage.nodes
        anchors == AnchorPositions(nodes)
    IN  \A j \in 1..Len(xOut.allReviewData) :
          LET pos == anchors[xOut.allReviewData[j].index + 1]
              before == {i \in 1..pos : IsPriceHeading(nodes, i)}
          IN  before # {} =>
                xOut.allReviewData[j].priceRange = MapPriceRange(nodes[Largest(before)].data)

\* C2: a run that extracts zero reviews fails and writes neither file.
C2_ZeroReviewsWriteNothing ==
  (run.assembled /\ run.reviews = <<>>) =>
    (run.status = "failed" /\ ~run.wroteMeta /\ ~run.wroteReviews)

BrandsOf(reviews) == {reviews[i].brand : i \in 1..Len(reviews)}

\* C3: every run has written both files, the metadata brands being the
\* distinct brands of the reviews file, or has written neither.
C3_BothFilesOrNeither ==
  (run.status # "idle") =>
    \/ /\ run.wroteMeta /\ run.wroteReviews
       /\ fsMeta.exists /\ fsReviews.exists
       /\ Range(fsMeta.brands) = BrandsOf(fsReviews.data)
    \/ ~run.wroteMeta /\ ~run.wroteReviews

AllowedSizes ==
  { <<"s","o","p","r","a","n","o">>, <<"s","o","p","r","a","n","i","n","o">>, <<"c","o","n","c","e","r","t">>, <<"t","e","n","o","r">>, <<"b","a","r","i","t","o","n","e">>, <<"o","t","h","e","r">> }

AllowedPriceRanges == {"<50", "50-100", "100-200", "200-500", "500+"}

HasInvalidValue(reviews) ==
  \E i \in 1..Len(reviews) :
    reviews[i].size \notin AllowedSizes \/ reviews[i].priceRange \notin AllowedPriceRanges

\* C4: a run whose assembled reviews hold a size or a price range outside
\* the allow-lists fails with the validation error of saveBrandMetadata and
\* leaves both files as they were.
C4_InvalidValueAbortsBeforeWrite ==
  [][(run'.assembled /\ HasInvalidValue(run'.reviews)) =>
       /\ run'.status = "failed"
       /\ run'.error \in {"Unexpected price ranges found in reviews",
                          "Unexpected sizes found in reviews"}
       /\ ~run'.wroteMeta /\ ~run'.wroteReviews
       /\ fsMeta' = fsMeta /\ fsReviews' = fsReviews]_vars

\* a run over a page with a nested heading failed on the price range
\* 'unknown' after an earlier run had written both files
C4_Witness ==
  /\ run.assembled /\ HasInvalidValue(run.reviews)
  /\ run.error = "Unexpected price ranges found in reviews"
  /\ fsMeta.exists /\ fsReviews.exists

\* C5: no two records of the extracted review list share a url.
C5_UniqueUrls ==
  xOut.done => NoRepeat(MapUrl(xOut.reviews))

PrevUrlSet == Range(MapUrl(OrEmpty(dPrev)))

CurrUrlSet == Range(MapUrl(dCurr))

\* the records of list whose url is outside urls, in the order of list
RECURSIVE WithoutUrls(_, _)
WithoutUrls(list, urls) ==
  IF list = <<>> THEN <<>>
  ELSE IF Head(list).url \in urls THEN WithoutUrls(Tail(list), urls)
       ELSE <<Head(list)>> \o WithoutUrls(Tail(list), urls)

\* current is previous followed by one record with a new url
AddsOneNewUrl ==
  /\ ~dPrev.isNull
  /\ Len(dCurr) = Len(dPrev.items) + 1
  /\ SubSeq(dCurr, 1, Len(dPrev.items)) = dPrev.items
  /\ dCurr[Len(dCurr)].url \notin PrevUrlSet

\* C6: changes.new is the records of current whose url is absent from
\* previous, in current order; previous plus one new url gives exactly that
\* record and nothing removed; a null previous makes every record new.
C6_NewIsCurrentMinusPrevious ==
  dReport.done =>
    LET changes == dReport.report.changes
    IN  /\ changes.new = WithoutUrls(dCurr, PrevUrlSet)
        /\ AddsOneNewUrl =>
             (changes.new = <<dCurr[Len(dCurr)]>> /\ changes.removed = <<>>)
        /\ dPrev.isNull => (changes.new = dCurr /\ changes.removed = <<>>)

C6_Witness ==
  /\ dReport.done /\ AddsOneNewUrl /\ dPrev.items # <<>>
  /\ dReport.report.changes.new = <<dCurr[Len(dCurr)]>>

\* current is previous without the records of the one url u
RemovesUrl(u) ==
  /\ ~dPrev.isNull
  /\ u \in PrevUrlSet
  /\ dCurr = WithoutUrls(dPrev.items, {u})

\* C7: changes.removed lists, as bare urls and once each, the urls of
\* previous that are absent from current; removing one url from previous
\* gives exactly that url and nothing new.
C7_RemovedIsPreviousMinusCurrent ==
  dReport.done =>
    LET changes == dReport.report.changes
    IN  /\ Range(changes.removed) = PrevUrlSet \ CurrUrlSet
        /\ NoRepeat(changes.removed)
        /\ \A i \in 1..Len(changes.removed) : changes.removed[i] \in DiffUrls
        /\ \A u \in DiffUrls :
             RemovesUrl(u) => (changes.removed = <<u>> /\ changes.new = <<>>)

C7_Witness ==
  /\ dReport.done /\ dCurr # <<>>
  /\ \E u \in DiffUrls : RemovesUrl(u) /\ dReport.report.changes.removed = <<u>>

\* C8: isNewOrUpdated answers true iff the url has no entry, or has one and
\* a supplied content hash differs from the stored one; without a content
\* hash a url that was passed to updateCache is reported unchanged.
C8_SeenUrlReportedUnchanged ==
  (cdCall.op = "isNewOrUpdated") =>
    LET entry == cache.urls[GenerateHash(cdCall.url)]
        hasEntry == ~cache.isNull /\ entry.present
    IN  /\ cdCall.result =
             (~hasEntry \/ (cdCall.contentHash # NullHash
                            /\ entry.contentHash # cdCall.contentHash))
        /\ (cdCall.contentHash = NullHash /\ cdCall.url \in cdSeen) => ~cdCall.result

MatchingBrands == {b \in Range(bList) : Includes(ToUpperCase(bTitle), b)}

LongestMatch ==
  /\ bResult.brand \in MatchingBrands
  /\ \A b \in MatchingBrands : Len(b) <= Len(bResult.brand)

\* the first whitespace-delimited token of the title
FirstToken(title) == SplitFirst(TrimStart(title))

SizeKeywords == << <<"s","o","p","r","a","n","o">>, <<"s","o","p","r","a","n","i","n","o">>, <<"c","o","n","c","e","r","t">>, <<"t","e","n","o","r">>, <<"b","a","r","i","t","o","n","e">> >>

SizeCategories == Range(SizeKeywords) \cup { <<"o","t","h","e","r">> }

\* the size keywords that are substrings of a lowercased title, in order
KeywordsIn(lower) ==
  LET Hit(k) == Includes(lower, k)
  IN  SelectSeq(SizeKeywords, Hit)

\* the same, 'baritone' being also found through 'bari '
KeywordsOrBariIn(lower) ==
  LET Hit(k) == Includes(lower, k) \/ (k = <<"b","a","r","i","t","o","n","e">> /\ Includes(lower, <<"b","a","r","i"," ">>))
  IN  SelectSeq(SizeKeywords, Hit)

\* C11 as stated: a title equal to 'Enya EUC-ms', ignoring case, gives
\* 'concert'; any other title gives the first of soprano, sopranino,
\* concert, tenor, baritone that is a substring of the lowercased title,
\* and 'other' when none is; the result is one of the six categories.
C11_ExceptionThenFirstKeyword ==
  nOut.op = "extractSize" =>
    /\ nOut.text \in SizeCategories
    /\ nOut.text =
         IF ToLowerCase(nText) = ToLowerCase(EnyaTitle) THEN <<"c","o","n","c","e","r","t">>
         ELSE IF KeywordsIn(ToLowerCase(nText)) # <<>>
              THEN KeywordsIn(ToLowerCase(nText))[1]
              ELSE <<"o","t","h","e","r">>

\* C11 (amended): the exception applies to the title trimmed of surrounding
\* whitespace, and 'baritone' is also returned for a title containing
\* 'bari ' when none of the earlier keywords is found; otherwise as stated.
C11_ExceptionThenFirstKeywordOrBari ==
  nOut.op = "extractSize" =>
    /\ nOut.text \in SizeCategories
    /\ nOut.text =
         IF Trim(ToLowerCase(nText)) = ToLowerCase(EnyaTitle) THEN <<"c","o","n","c","e","r","t">>
         ELSE IF KeywordsOrBariIn(ToLowerCase(nText)) # <<>>
              THEN KeywordsOrBariIn(ToLowerCase(nText))[1]
              ELSE <<"o","t","h","e","r">>

C11_Witness ==
  /\ nOut.op = "extractSize"
  /\ nText = <<"E","N","Y","A"," ","e","u","c","-","M","S"," ">>
  /\ nOut.text = <<"c","o","n","c","e","r","t">>

\* the date string as parseReviewDate looks at it
CleanDate(dateStr) == Trim(RemoveChar(RemoveChar(dateStr, "("), ")"))

\* the places of a string where a month abbreviation, whitespace and four
\* digits follow one another
MonthYears(s) ==
  {p \in (1..Len(s)) \X (1..Len(s)) :
     /\ MonthYearAt(s, p[1], p[2])
     /\ MonthNumber(ToLowerCase(SubSeq(s, p[1], p[1] + 2))) # <<>>}

MonthYearDate(s, p) ==
  SubSeq(s, p[1] + 3 + p[2], p[1] + 6 + p[2]) \o <<"-">>
    \o MonthNumber(ToLowerCase(SubSeq(s, p[1], p[1] + 2))) \o <<"-","0","1">>

Years(s) == {i \in 1..Len(s) : YearAt(s, i)}

\* C12: parseReviewDate gives YYYY-MM-01 for a string holding a month
\* abbreviation followed by a four-digit year, else YYYY-01-01 for a string
\* holding four digits in a row, else null; the day of a date is always 01.
C12_MonthYearElseYearElseNull ==
  nOut.op = "parseReviewDate" =>
    /\ IF MonthYears(CleanDate(nText)) # {}
       THEN \E p \in MonthYears(CleanDate(nText)) :
              nOut.text = MonthYearDate(CleanDate(nText), p)
       ELSE IF Years(CleanDate(nText)) # {}
            THEN \E i \in Years(CleanDate(nText)) :
                   nOut.text = SubSeq(CleanDate(nText), i, i + 3) \o <<"-","0","1","-","0","1">>
            ELSE nOut.text = NullDate
    /\ nOut.text # NullDate =>
         SubSeq(nOut.text, Len(nOut.text) - 2, Len(nOut.text)) = <<"-","0","1">>

\* the rules of the price mapping in their priority order: a rule matches a
\* text that contains every needle of `all`, and one of `any` or starts
\* with one of `leading`
PriceRules ==
  << [all |-> { <<"5","0","0">> }, any |-> { <<"p","l","u","s">>, <<"+">> }, leading |-> {}, category |-> "500+"],
     [all |-> {}, any |-> { <<"2","0","0"," ","-">>, <<"2","0","0","-">> }, leading |-> {}, category |-> "200-500"],
     [all |-> {}, any |-> { <<"1","0","0"," ","-">>, <<"1","0","0","-">> }, leading |-> {}, category |-> "100-200"],
     [all |-> {}, any |-> { <<"5","0","-">>, <<"5","0"," ","-">> }, leading |-> {}, category |-> "50-100"],
     [all |-> {}, any |-> { <<"0"," ","-">> }, leading |-> { <<"0","-">> }, category |-> "<50"] >>

RuleMatches(rule, text) ==
  /\ \A needle \in rule.all : Includes(text, needle)
  /\ \/ \E needle \in rule.any : Includes(text, needle)
     \/ \E needle \in rule.leading : StartsWith(text, needle)

C14_LoadCacheLeavesWellFormedCache ==
  cdCall.op = "loadCache" =>
    /\ cdCall.error = "none"
    /\ cacheFile.kind \in {"missing", "corrupt"} => cache = FreshCache
    /\ ~cache.isNull

\* a body that is no object, or one in which a property the loaders read
\* holds something that is neither a list (data, brands, sizes,
\* priceRanges) nor an object (metadata)
Lists == {"[]", "[x]"}

WronglyShaped(body, fn) ==
  \/ body.kind # "object"
  \/ /\ fn = "loadReviewsData"
     /\ \/ body.data \notin Lists \cup {"absent"}
        \/ body.metadata \notin {"{}", "absent"}
  \/ /\ fn = "loadFilterOptions"
     /\ \/ body.brands \notin Lists \cup {"absent"}
        \/ body.sizes \notin Lists \cup {"absent"}
        \/ body.priceRanges \notin Lists \cup {"absent"}

EmptyCollections(out) ==
  \/ out.fn = "loadReviewsData" /\ out.reviews = "[]" /\ out.metadata = "{}"
  \/ out.fn = "loadFilterOptions" /\ out.brands = "[]" /\ out.sizes = "[]"
       /\ out.priceRanges = "[]"

\* C15: the loaders never throw, and on a failed request, an unparsable
\* body or a wrongly shaped body they resolve to empty collections.
C15_LoadersFallBackToEmpty ==
  ldOut.fn # "none" =>
    /\ ~ldOut.threw
    /\ (TryThrows(ldResponse) \/ WronglyShaped(ldResponse.body, ldOut.fn))
         => EmptyCollections(ldOut)

GenericWords == << <<" ","u","k","u","l","e","l","e","s">>, <<" ","u","k","u","l","e","l","e">>, <<" ","u","k","e">>, <<" ","r","e","v","i","e","w">> >>

\* a text with the generic words removed, one after the other
RECURSIVE StripGeneric(_, _)
StripGeneric(text, k) ==
  IF k = 0 THEN text
  ELSE RemoveAllIgnoreCase(StripGeneric(text, k - 1), GenericWords[k])

BeginsWithBrand(title, brand) ==
  Len(brand) <= Len(title) /\ ToUpperCase(SubSeq(title, 1, Len(brand))) = ToUpperCase(brand)

\* what is left of a title once its brand prefix and the generic words are
\* stripped: 'Unknown Model' if nothing, and without a size as last word
ModelOf(title, brand) ==
  LET rest == SubSeq(title, Len(brand) + 1, Len(title))
      stripped == Trim(StripGeneric(rest, Len(GenericWords)))
      model == IF stripped # <<>> THEN stripped ELSE UnknownModel
      words == SplitWords(model)
  IN  IF Len(words) > 1 /\ ToLowerCase(words[Len(words)]) \in SizeWords
      THEN JoinWords(SubSeq(words, 1, Len(words) - 1))
      ELSE model

\* C16: for a title that begins with the matched brand, the model is the
\* title with that brand prefix and the generic words stripped (so that
\* nothing of the brand is left in front), 'Unknown Model' when nothing
\* remains; the model is never the empty string.
C16_ModelIsTitleWithoutBrand ==
  nOut.op = "extractBrandAndModel" =>
    /\ nOut.text # <<>>
    /\ BeginsWithBrand(nText, nOut.brand) => nOut.text = ModelOf(nText, nOut.brand)

\* C17 as stated: a title that contains 'sopranino' also contains
\* 'soprano', and, the 'soprano' test coming first, its size is 'soprano'.
C17_SopraninoTitleIsSoprano ==
  (nOut.op = "extractSize" /\ Includes(ToLowerCase(nText), <<"s","o","p","r","a","n","i","n","o">>)) =>
    /\ Includes(ToLowerCase(nText), <<"s","o","p","r","a","n","o">>)
    /\ nOut.text = <<"s","o","p","r","a","n","o">>

\* C17 (amended): the 'soprano' test comes first, but 'sopranino' does not
\* contain 'soprano': a title that contains 'sopranino' has size 'soprano'
\* if it contains 'soprano' as well, and size 'sopranino' otherwise.
C17_SopranoBeforeSopranino ==
  (nOut.op = "extractSize" /\ Includes(ToLowerCase(nText), <<"s","o","p","r","a","n","i","n","o">>)) =>
    nOut.text = IF Includes(ToLowerCase(nText), <<"s","o","p","r","a","n","o">>)
                THEN <<"s","o","p","r","a","n","o">> ELSE <<"s","o","p","r","a","n","i","n","o">>

C17_Witness ==
  /\ nOut.op = "extractSize"
  /\ nText = <<"s","o","p","r","a","n","i","n","o"," ","S","o","p","r","a","n","o">>
  /\ nOut.text = <<"s","o","p","r","a","n","o">>

\* the first line-break or block boundary after position pos
IsBoundary(n) == n.type = "tag" /\ n.name \in {"br", "div", "p"}

Boundary(nodes, pos) ==
  IF \E j \in (pos + 1)..Len(nodes) : IsBoundary(nodes[j])
  THEN CHOOSE j \in (pos + 1)..Len(nodes) :
         IsBoundary(nodes[j]) /\ \A k \in (pos + 1)..(j - 1) : ~IsBoundary(nodes[k])
  ELSE Len(nodes) + 1

\* the position of the anchor a record was made for
AnchorOf(nodes, record) == AnchorPositions(nodes)[record.index + 1]

\* the record holds the rating and the date of the text node at j
MadeFrom(record, n) ==
  /\ n.type = "text" /\ n.num # <<>>
  /\ record.rating = ParseFloat(n.num)
  /\ record.reviewDate = ParseReviewDate(Trim(n.date))

\* C18: the scan after an anchor stops at the first line-break or block
\* boundary, so the rating and date of a record are those of a text that
\* lies between its anchor and that boundary.
C18_ScanStopsAtBoundary ==
  xOut.done =>
    \A i \in 1..Len(xOut.allReviewData) :
      LET record == xOut.allReviewData[i]
          pos == AnchorOf(xPage.nodes, record)
      IN  \E j \in (pos + 1)..(Boundary(xPage.nodes, pos) - 1) :
            MadeFrom(record, xPage.nodes[j])

\* the text between an anchor and the boundary that ends its line, taken
\* node by node until FollowingLimit characters are collected
RECURSIVE TextUpTo(_, _, _, _)
TextUpTo(nodes, i, end, collected) ==
  IF i >= end \/ TextLength(collected) >= FollowingLimit THEN collected
  ELSE IF nodes[i].type = "text"
       THEN TextUpTo(nodes, i + 1, end, collected \o <<nodes[i]>>)
       ELSE TextUpTo(nodes, i + 1, end, collected)

TrailingText(nodes, pos) == TextUpTo(nodes, pos + 1, Boundary(nodes, pos), <<>>)

Qualifies(anchor) ==
  /\ anchor.href \in DomainHrefs
  /\ anchor.href \notin IndexHrefs
  /\ Len(Trim(anchor.text)) >= MinLinkText

EmittedFor(nodes, pos, records) ==
  \E i \in 1..Len(records) :
    /\ records[i].index + 1 <= Len(AnchorPositions(nodes))
    /\ AnchorOf(nodes, records[i]) = pos

\* C19: a record is emitted for an anchor exactly when the anchor points to
\* the source domain, is no index-page link, has a link text of at least
\* five characters and a trailing text that matches one of the two rating
\* patterns; the other anchors are passed over without an error.
C19_RecordIffQualifyingAndRated ==
  xOut.done =>
    /\ xOut.error = "none"
    /\ \A pos \in 1..Len(xPage.nodes) :
         (xPage.nodes[pos].type = "tag" /\ xPage.nodes[pos].name = "a") =>
           (EmittedFor(xPage.nodes, pos, xOut.allReviewData)
              <=> /\ Qualifies(xPage.nodes[pos])
                  /\ RatingMatch(TrailingText(xPage.nodes, pos)) # <<>>)

PriceHeadings(nodes) == {h \in 1..Len(nodes) : IsPriceHeading(nodes, h)}

FirstHeading(nodes) ==
  CHOOSE h \in PriceHeadings(nodes) : \A k \in PriceHeadings(nodes) : h <= k

\* C20: extractReviewPrice does not fail on any page, and an anchor that no
\* price heading precedes gets the category of the first heading of the
\* page.
C20_FallbackIsFirstHeading ==
  xOut.done =>
    /\ xOut.error = "none"
    /\ \A i \in 1..Len(xOut.allReviewData) :
         LET record == xOut.allReviewData[i]
             pos == AnchorOf(xPage.nodes, record)
         IN  (/\ PriceHeadings(xPage.nodes) # {}
              /\ \A h \in PriceHeadings(xPage.nodes) : pos < h)
               => record.priceRange = MapPriceRange(xPage.nodes[FirstHeading(xPage.nodes)].data)

(***************************************************************************)
(* C21: the scraper's generateDiffReport always reports an empty            *)
(* changes.updated; ChangeDetector.generateDiffReport reports in            *)
(* changes.updated exactly one entry {url, previous, current}, in the order *)
(* of the current list, for each current record whose url exists in the     *)
(* previous list and which differs from the previous record with that url,  *)
(* and no entry for a record that equals it.                                *)
(***************************************************************************)
PreviousWithUrl(url) ==
  IF dPrev.isNull THEN {}
  ELSE {j \in 1..Len(dPrev.items) :
          dPrev.items[j].url = url /\ \A k \in 1..(j - 1) : dPrev.items[k].url # url}

DiffersFromPrevious ==
  {i \in 1..Len(dCurr) :
     \E j \in PreviousWithUrl(dCurr[i].url) : dPrev.items[j] # dCurr[i]}

C22_DiffImplementationsAgree ==
  (dReport.done /\ dDetector.done) =>
    /\ dReport.report.changes.new = dDetector.report.changes.new
    /\ dReport.report.changes.removed = MapUrl(dDetector.report.changes.removed)
    /\ dReport.report.summary = dDetector.report.summary

(***************************************************************************)
(* C23: two successive successful scrape runs over the same unchanged page  *)
(* are idempotent: the second run loads the reviews the first run persisted *)
(* as its previous data, its diffReport has empty changes.new and           *)
(* changes.removed and netChange 0, and the data list it persists equals    *)
(* the one the first run persisted.                                         *)
(***************************************************************************)
\* a successful run that has just written ukulele-reviews.json
RunSucceeded(r, reviewsFile) ==
  /\ r.status = "ok"
  /\ r.wroteReviews
  /\ reviewsFile.exists
  /\ reviewsFile.data = JsonData(r.reviews)

\* the step is a second successful run that parsed the same reviews and
\* could read the file of the first
SecondRunOverSamePage ==
  /\ RunSucceeded(run, fsReviews)
  /\ RunSucceeded(run', fsReviews')
  /\ run'.reviews = run.reviews
  /\ ~run'.previousData.isNull

Occurrences(items, x) == Cardinality({i \in 1..Len(items) : items[i] = x})

OnlySizeSelected ==
  /\ fOut.done
  /\ fFilters.size \in Range(MetadataSizes)
  /\ fFilters.search = <<>>
  /\ fFilters.brand = <<>>
  /\ fFilters.priceRange = ""

\* the reviews of the size category named by the selected size
OfSelectedSize ==
  LET InCategory(review) == review.size = ToLowerCase(fFilters.size)
  IN  SelectSeq(fReviews, InCategory)

C24_OfferedSizeSelectsItsReviews ==
  OnlySizeSelected =>
    /\ \A review \in FilterRecords :
         Occurrences(fOut.result, review) = Occurrences(OfSelectedSize, review)
    /\ OfSelectedSize # <<>> => fOut.result # <<>>

(***************************************************************************)
(* C26: filterReviews returns exactly the input reviews that satisfy every  *)
(* non-empty filter (case-insensitive substring search over brand, model    *)
(* and 'brand model'; exact equality for brand, size and priceRange),       *)
(* ordered by ascending index of priceRange in priceOrder and, within the   *)
(* same price index, by descending rating; with all filters empty every     *)
(* input review is returned.                                                *)
(***************************************************************************)
\* the search filter as stated: the term as typed, compared without case
SatisfiesSearch(review, term) ==
  \/ Includes(ToLowerCase(review.brand), ToLowerCase(term))
  \/ Includes(ToLowerCase(review.model), ToLowerCase(term))
  \/ Includes(ToLowerCase(review.brand \o <<" ">> \o review.model), ToLowerCase(term))

SatisfiesEquality(review) ==
  /\ fFilters.brand # <<>> => review.brand = fFilters.brand
  /\ fFilters.size # <<>> => review.size = fFilters.size
  /\ fFilters.priceRange # "" => review.priceRange = fFilters.priceRange

\* the result is ordered by price index, then by rating from high to low
ResultOrdered ==
  \A i \in 1..Len(fOut.result), j \in 1..Len(fOut.result) :
    i < j =>
      LET iPrice == IndexOf(fOrder, fOut.result[i].priceRange)
          jPrice == IndexOf(fOrder, fOut.result[j].priceRange)
      IN  /\ iPrice <= jPrice
          /\ iPrice = jPrice =>
               RatingNumber(fOut.result[i].rating) >= RatingNumber(fOut.result[j].rating)

\* the result holds the reviews picked by Satisfying, each as often as the
\* input does
ResultIsExactly(Satisfying(_)) ==
  \A review \in FilterRecords :
    Occurrences(fOut.result, review) = Occurrences(SelectSeq(fReviews, Satisfying), review)

C26_ExactlyTheSatisfyingReviewsInOrder ==
  fOut.done =>
    LET Satisfying(review) ==
          /\ fFilters.search # <<>> => SatisfiesSearch(review, fFilters.search)
          /\ SatisfiesEquality(review)
    IN  ResultIsExactly(Satisfying) /\ ResultOrdered

\* C26 with the search term as the code takes it: trimmed of surrounding
\* whitespace, and no filter at all when nothing is left
C26_ExactlyTheSatisfyingReviewsForTrimmedSearch ==
  fOut.done =>
    LET Satisfying(review) ==
          /\ Trim(fFilters.search) # <<>> => SatisfiesSearch(review, Trim(fFilters.search))
          /\ SatisfiesEquality(review)
    IN  ResultIsExactly(Satisfying) /\ ResultOrdered

\* a search with surrounding whitespace and a price filter keep two
\* reviews, which come out in the other order
C26_Witness ==
  /\ fOut.done
  /\ fFilters.search # Trim(fFilters.search)
  /\ fFilters.priceRange # ""
  /\ Len(fOut.result) = 2
  /\ fOut.result[1] = fReviews[Len(fReviews)]
  /\ fOut.result[1] # fOut.result[2]

(***************************************************************************)
(* C25: updateCache(url, data) on a detector whose cache is still null      *)
(* completes without error and records the url, so that a following         *)
(* isNewOrUpdated(url) returns false.                                       *)
(***************************************************************************)
C25_UpdateCacheOnNullCacheRecordsUrl ==
  [][(cache.isNull /\ cdCall'.op = "updateCache") =>
       /\ cdCall'.error = "none"
       /\ ~IsNewOrUpdated(cache', cdCall'.url, NullHash)]_vars

(***************************************************************************)
(* C27: in every interleaving of the asynchronous steps of 'construct the   *)
(* scraper, then call scrape()', the creation of the output directory that  *)
(* the constructor starts without awaiting it has completed successfully    *)
(* before the first file write (the metadata file, then the reviews file)   *)
(* is issued, so the run behaves as the sequential order mkdir, request,    *)
(* metadata write, reviews write.                                           *)
(***************************************************************************)
\* a file write has been issued
WriteIssued ==
  \/ pPc \in {"metadata write", "load previous", "reviews write", "done"}
  \/ \E i \in 1..Len(pEvents) :
       pEvents[i] \in {"metadata write", "metadata write failed",
                       "reviews write", "reviews write failed"}

C27_MkdirCompletedBeforeFirstWrite ==
  /\ WriteIssued => pMkdir = "fulfilled"
  /\ pPc = "done" =>
       pEvents = <<"mkdir", "request", "metadata write", "load previous", "reviews write">>

====
